---- MODULE Spec2Model ----
(***************************************************************************)
(* A model of the AQUAMIND water-treatment agents.                         *)
(*                                                                         *)
(* Numbers are scaled integers: an effectiveness e stands for e/100, a     *)
(* toxicity t for t/100 and a frequency f for f/100 Hz.  A success rate is *)
(* an exact fraction <<num, den>> in lowest terms, so the incremental mean *)
(* is computed exactly (the code computes it in binary floating point).    *)
(* Chinese string literals of the source are written in ASCII:             *)
(*   "low"/"medium"/"high" for the levels, "stable" for the trend,         *)
(*   and the keyword of each intent category by the category's meaning.    *)
(***************************************************************************)
EXTENDS Integers, Sequences, FiniteSets, TLC

VARIABLES
    feedback_history,   \* FeedbackAgent.feedback_history: deque(maxlen = HistorySize)
    learning_records,   \* FeedbackAgent.learning_records: scenario key -> reference
    heap,               \* the LearningRecord objects: reference -> fields
    recorded,           \* every feedback ever passed to record_feedback, in arrival order
    last_call,          \* the last FeedbackAgent call and what it returned
    fb_pc,              \* per worker: position inside a concurrent record_feedback
    fb_local,           \* per worker: the locals of its record_feedback call
    agent_cache,        \* supervisor._agent_cache: agent name -> instance
    creator_runs,       \* per agent name: creator calls completed since the last reset
    instances_created,  \* number of agent instances constructed so far
    sup_pc,             \* per worker: position inside an invoke_<name>_agent tool
    sup_local,          \* per worker: the locals of its tool call
    tool_result,        \* per worker: how its last tool call ended
    sup_calls,          \* number of tool calls started
    sup_resets,         \* number of reset_agents calls made
    system_state,       \* per orchestrator object: its system_state dictionary
    last_request,       \* the last orchestrator request: what ran and what run returned
    requests,           \* number of orchestrator requests made (the clock of timestamps)
    published,          \* the payloads published on the PLC write topic, in order
    mqtt_last,          \* the last actuator tool call: its arguments and its success flag
    mqtt_calls,         \* number of actuator tool calls made
    ctl_call,           \* the call of a controller function in progress: arguments and output
    ctl_kept,           \* an earlier controller call whose output the caller has kept
    command_stats,      \* plc_write_handler.command_stats: the three counters
    status_published    \* the results published on the plc/write/status topic, in order

fbVars == <<feedback_history, learning_records, heap, recorded, last_call>>
thrVars == <<fb_pc, fb_local>>
supVars == <<agent_cache, creator_runs, instances_created, sup_pc, sup_local,
             tool_result, sup_calls, sup_resets>>
orchVars == <<system_state, last_request, requests>>
mqttVars == <<published, mqtt_last, mqtt_calls>>
ctlVars == <<ctl_call, ctl_kept>>
plcVars == <<command_stats, status_published>>
vars == <<fbVars, thrVars, supVars, orchVars, mqttVars, ctlVars, plcVars>>

\* what the operations of one component leave alone
NotFeedback == <<supVars, orchVars, mqttVars, ctlVars, plcVars>>
NotSupervisor == <<fbVars, thrVars, orchVars, mqttVars, ctlVars, plcVars>>
NotOrchestrator == <<fbVars, thrVars, supVars, mqttVars, ctlVars, plcVars>>
NotMqtt == <<fbVars, thrVars, supVars, orchVars, ctlVars, plcVars>>
NotController == <<fbVars, thrVars, supVars, orchVars, mqttVars, plcVars>>
NotPlcWrite == <<fbVars, thrVars, supVars, orchVars, mqttVars, ctlVars>>

None == "None"

\* str.lower on the strings of the model
Lower(s) ==
    CASE s = "START" -> "start"
      [] s = "Stop" -> "stop"
      [] s = "FAN" -> "fan"
      [] s = "Start_Fan" -> "start_fan"
      [] s = "qidong_jinshuifa_VA01" -> "qidong_jinshuifa_va01"
      [] s = "MBR" -> "mbr"
      [] s = "Feedback" -> "feedback"
      [] OTHER -> s

\* str.upper on the regeneration modes
Upper(s) ==
    CASE s = "standby" -> "STANDBY"
      [] s = "normal" -> "NORMAL"
      [] s = "intensive" -> "INTENSIVE"
      [] s = "energy_saving" -> "ENERGY_SAVING"
      [] OTHER -> s

----------------------------------------------------------------------------
(* Bounds of the model *)

\* history_size the learner is constructed with (the code's default is 100)
HistorySize == 2
\* number of record_feedback calls explored
MaxCalls == 3
\* number of record_feedback calls the concurrent workers make in total
MaxConcurrentCalls == 3
\* number of supervisor tool calls and of reset_agents calls explored
MaxToolCalls == 3
MaxResets == 1
\* number of orchestrator requests explored, and of keywords in one request
MaxRequests == 2
MaxKeywords == 2
\* number of actuator tool calls explored, and of entries in one send_plc_command
MaxMqttCalls == 2
MaxCommands == 2
\* number of words in a request whose intent is identified on its own
MaxIntentWords == 3
MaxMessages == 4          \* messages received by the plc/write handler

----------------------------------------------------------------------------
(* Exact fractions *)

RECURSIVE GCD(_, _)
GCD(a, b) == IF b = 0 THEN a ELSE GCD(b, a % b)

Norm(n, d) == LET g == GCD(n, d) IN IF g = 0 THEN <<0, 1>> ELSE <<n \div g, d \div g>>

RatEq(p, q) == p[1] * q[2] = q[1] * p[2]
RatGt(p, q) == p[1] * q[2] > q[1] * p[2]

\* an effectiveness in hundredths as a fraction
EffRat(e) == Norm(e, 100)

----------------------------------------------------------------------------
(* FeedbackAgent: inputs *)

\* (agent_name, action_taken) pairs of the feedbacks recorded; "mbr_tmp" has no
\* entry in parameter_baselines, and "mbr_tmp"+"control" composes the same
\* scenario key as "mbr"+"tmp_control".
Scenarios == { <<"turntable", "frequency_control">>,
               <<"mbr", "tmp_control">>,
               <<"mbr_tmp", "control">> }

\* effectiveness values (hundredths): below, at and above the 0.8 threshold
EffValues == {60, 80, 100}

\* parameter dictionaries a feedback may carry
ParamChoices == { [frequency |-> 3000], [frequency |-> 4000] }

EmptyDict == [k \in {} |-> 0]

\* FeedbackAgent.parameter_baselines
parameter_baselines ==
    [ turntable    |-> [frequency |-> 2500, reactors |-> 2],
      mbr          |-> [aeration |-> 5000, flux |-> 1800],
      regeneration |-> [temperature |-> 80000, feed_rate |-> 3000] ]

\* parameter_baselines.get(agent_name, {})
BaselineOf(agent_name) ==
    IF agent_name \in DOMAIN parameter_baselines
    THEN parameter_baselines[agent_name]
    ELSE EmptyDict

ControlFeedback(agent, action, eff, params, ts) ==
    [agent_name |-> agent, action_taken |-> action, effectiveness |-> eff,
     parameters |-> params, timestamp |-> ts]

\* f"{agent_name}_{action_taken}"
ScenarioKey(agent_name, action_taken) == agent_name \o "_" \o action_taken

KeyOf(fb) == ScenarioKey(fb.agent_name, fb.action_taken)

----------------------------------------------------------------------------
(* FeedbackAgent: operations *)

\* deque(maxlen).append: a full deque drops its leftmost element
DequeAppendNoEvict(d, x, maxlen) ==
    IF Len(d) >= maxlen THEN d ELSE Append(d, x)

DequeAppend(d, x, maxlen) ==
    IF maxlen = 0 THEN d
    ELSE IF Len(d) = maxlen THEN Append(Tail(d), x)
    ELSE Append(d, x)

\* (record.success_rate * n + feedback.effectiveness) / (n + 1)
IncrementalMeanWrong(sr, n, e) ==
    Norm(sr[1] * 100 + e * sr[2], sr[2] * 100 * 2)

IncrementalMean(sr, n, e) ==
    Norm(sr[1] * n * 100 + e * sr[2], sr[2] * 100 * (n + 1))

\* feedback.effectiveness > 0.8
IsBetterInclusive(e) == e >= 80

IsBetter(e) == e > 80

\* a first record that keeps the parameters only of a sample scoring above 0.8
NewLearningRecordSeedIfBetter(fb) ==
    [scenario |-> KeyOf(fb),
     optimal_parameters |-> IF IsBetter(fb.effectiveness) THEN fb.parameters ELSE EmptyDict,
     success_rate |-> EffRat(fb.effectiveness), sample_count |-> 1,
     last_updated |-> fb.timestamp]

\* LearningRecord(...) built for a key seen for the first time
NewLearningRecord(fb) ==
    [scenario |-> KeyOf(fb), optimal_parameters |-> fb.parameters,
     success_rate |-> EffRat(fb.effectiveness), sample_count |-> 1,
     last_updated |-> fb.timestamp]

\* the reference of a newly constructed object
NewRef(hp) == Cardinality(DOMAIN hp) + 1

\* a mapping with one entry set (dict[key] = value)
Store(f, k, v) == [x \in DOMAIN f \cup {k} |-> IF x = k THEN v ELSE f[x]]

\* the else branch of _update_learning_record, applied to one record
UpdatedRecord(record, fb) ==
    [record EXCEPT
        !.success_rate = IncrementalMean(record.success_rate, record.sample_count,
                                         fb.effectiveness),
        !.sample_count = record.sample_count + 1,
        !.last_updated = fb.timestamp,
        !.optimal_parameters = IF IsBetter(fb.effectiveness) THEN fb.parameters
                               ELSE record.optimal_parameters]

\* FeedbackAgent._update_learning_record, run without interruption: the
\* dictionary and the objects after it
UpdateLearningRecord(records, hp, fb) ==
    LET key == KeyOf(fb) IN
    IF key \notin DOMAIN records
    THEN [records |-> Store(records, key, NewRef(hp)),
          heap    |-> Store(hp, NewRef(hp), NewLearningRecord(fb))]
    ELSE [records |-> records,
          heap    |-> [hp EXCEPT ![records[key]] = UpdatedRecord(hp[records[key]], fb)]]

\* FeedbackAgent.get_recommended_parameters
GetRecommendedParametersInclusive(records, hp, agent_name, action) ==
    LET key == ScenarioKey(agent_name, action) IN
    IF key \in DOMAIN records /\ ~RatGt(<<7, 10>>, hp[records[key]].success_rate)
    THEN hp[records[key]].optimal_parameters
    ELSE BaselineOf(agent_name)

GetRecommendedParameters(records, hp, agent_name, action) ==
    LET key == ScenarioKey(agent_name, action) IN
    IF key \in DOMAIN records /\ RatGt(hp[records[key]].success_rate, <<7, 10>>)
    THEN hp[records[key]].optimal_parameters
    ELSE BaselineOf(agent_name)

----------------------------------------------------------------------------
(* Supervisor: the sub-agent tools and their instance cache *)

\* the agent names the six invoke_<name>_agent tools pass to _get_or_create_agent
AgentNames == {"toxicity", "turntable", "mbr", "regeneration", "diagnostic", "feedback"}

\* the text each tool's except branch puts before the exception's message
ToolErrorPrefix ==
    [ toxicity     |-> "toxicity prediction analysis failed: ",
      turntable    |-> "turntable control failed: ",
      mbr          |-> "MBR system control failed: ",
      regeneration |-> "activated carbon regeneration control failed: ",
      diagnostic   |-> "system diagnosis failed: ",
      feedback     |-> "feedback analysis failed: " ]

----------------------------------------------------------------------------
(* FeedbackAgent.calculate_effectiveness: expected and actual are whole     *)
(* numbers, the tolerance and the returned effectiveness are in hundredths  *)

Abs(x) == IF x < 0 THEN -x ELSE x

\* round(n / d, 0) for d > 0, to the nearest integer
RoundDiv(n, d) == (2 * n + d) \div (2 * d)

\* FeedbackAgent.calculate_effectiveness: a returned value or a raised
\* ZeroDivisionError
CalculateEffectiveness(expected, actual, tolerance) ==
    IF expected = 0
    THEN [kind |-> "value", value |-> IF actual = 0 THEN 100 ELSE 0]
    ELSE IF tolerance = 0
    THEN [kind |-> "raised", value |-> 0]
    ELSE \* 1 - error / tolerance = (100 * den - num) / den, in hundredths
         LET den == expected * tolerance
             num == 10000 * Abs(expected - actual)
             n == IF den < 0 THEN num - 100 * den ELSE 100 * den - num
             d == Abs(den)
         IN [kind |-> "value", value |-> IF n < 0 THEN 0 ELSE RoundDiv(n, d)]

\* the arguments calculate_effectiveness is called with
ExpectedValues == {-50, 0, 50}
ActualValues == {-50, 0, 45, 50, 57, 100}
ToleranceValues == {10, 20}

----------------------------------------------------------------------------
(* TurntableAgent: the control decision *)

Max(a, b) == IF a > b THEN a ELSE b
Min(a, b) == IF a < b THEN a ELSE b

\* KnowledgeBase.expert_rules["turntable_control"][...]["target_frequency"]
KbTargetFrequency(rule) ==
    CASE rule = "low_toxicity" -> 1000
      [] rule = "medium_toxicity" -> 2500
      [] rule = "high_toxicity" -> 4500

\* trend_factors.get(trend, 1.0), in percent
TrendFactor(trend) ==
    CASE trend = "rising" -> 115
      [] trend = "falling" -> 90
      [] OTHER -> 100

\* the reason texts of both turntable controllers, written in English
BaseReason(low, high) ==
    IF low THEN "low toxicity, energy saving mode"
    ELSE IF high THEN "high toxicity, full treatment"
    ELSE "medium toxicity, standard mode"

TrendReason(trend) ==
    IF trend = "rising" THEN ", toxicity rising, frequency raised"
    ELSE IF trend = "falling" THEN ", toxicity falling, frequency lowered"
    ELSE ""

\* (1 - math.exp(-k * hrt * 60)) * 100 with k = 0.05 * (1 + rpm / 1000) and
\* hrt = 15 / 60, in ten-thousandths of a percent, for the speeds (in
\* hundredths of an rpm) of the frequencies 9, 10, 11.5, 22.5, 25, 28.75,
\* 40.5, 45, 50 and 51.75 Hz
KineticRemoval(rpm) ==
    CASE rpm = 27000 -> 614225
      [] rpm = 30000 -> 622808
      [] rpm = 34500 -> 635325
      [] rpm = 67500 -> 715280
      [] rpm = 75000 -> 730854
      [] rpm = 86250 -> 752631
      [] rpm = 121500 -> 810099
      [] rpm = 135000 -> 828385
      [] rpm = 150000 -> 846645
      [] rpm = 155250 -> 852566

\* a removal rate that depends on an earlier call: 0 once an output was kept
ClampAndRoundStateful(removal_rate) ==
    IF ctl_kept.op = "none"
    THEN (Min(950000, Max(300000, removal_rate)) + 500) \div 1000
    ELSE 0

\* min(95.0, max(30.0, removal_rate)) and round(removal_rate, 1): tenths of a percent
ClampAndRound(removal_rate) ==
    (Min(950000, Max(300000, removal_rate)) + 500) \div 1000

\* round(frequency, 1): hundredths of a hertz to tenths.  The one frequency
\* with a second decimal, 25 * 1.15, is 28.749999999999996 in binary floating
\* point and rounds down.
RoundTenths(frequency) == (frequency + 4) \div 10

\* TurntableAgent._determine_control_params
DetermineControlParamsNoClamp(toxicity, toxicity_level, trend) ==
    LET low == toxicity_level = "low" \/ toxicity < 150
        high == toxicity_level = "high" \/ toxicity > 300
        base_freq == IF low THEN KbTargetFrequency("low_toxicity")
                     ELSE IF high THEN KbTargetFrequency("high_toxicity")
                     ELSE KbTargetFrequency("medium_toxicity")
        reactors == IF low THEN 2 ELSE IF high THEN 3 ELSE 2
    IN [frequency |-> (base_freq * TrendFactor(trend)) \div 100,
        reactors |-> reactors, standby |-> reactors = 3,
        reason |-> BaseReason(low, high) \o TrendReason(trend)]

DetermineControlParams(toxicity, toxicity_level, trend) ==
    LET low == toxicity_level = "low" \/ toxicity < 150
        high == toxicity_level = "high" \/ toxicity > 300
        base_freq == IF low THEN KbTargetFrequency("low_toxicity")
                     ELSE IF high THEN KbTargetFrequency("high_toxicity")
                     ELSE KbTargetFrequency("medium_toxicity")
        reactors == IF low THEN 2 ELSE IF high THEN 3 ELSE 2
        adjusted_freq == Min(5000, Max(500, (base_freq * TrendFactor(trend)) \div 100))
    IN [frequency |-> adjusted_freq, reactors |-> reactors, standby |-> reactors = 3,
        reason |-> BaseReason(low, high) \o TrendReason(trend)]

\* TurntableAgent._hz_to_rpm with rpm_per_hz = 30
HzToRpm(frequency) == frequency * 30

\* a removal rate without the reduction at high toxicity
CalculateRemovalRateNoReduction(frequency, toxicity) ==
    KineticRemoval(HzToRpm(frequency))

\* TurntableAgent._calculate_removal_rate
CalculateRemovalRate(frequency, toxicity) ==
    LET removal_rate == KineticRemoval(HzToRpm(frequency)) IN
    IF toxicity > 300 THEN (removal_rate * 9) \div 10 ELSE removal_rate

\* a PLC command that enables the third turntable whenever the first runs
ToPlcCommandThirdFollowsFirst(frequency_1, frequency_2, frequency_3, standby_triggered) ==
    [CMD_TYPE |-> "TURNTABLE_CONTROL",
     TURNTABLE_1 |-> [FREQ_SETPOINT |-> RoundTenths(frequency_1), ENABLE |-> frequency_1 > 0],
     TURNTABLE_2 |-> [FREQ_SETPOINT |-> RoundTenths(frequency_2), ENABLE |-> frequency_2 > 0],
     TURNTABLE_3 |-> [FREQ_SETPOINT |-> RoundTenths(frequency_3), ENABLE |-> frequency_1 > 0],
     ALARM_LEVEL |-> IF standby_triggered THEN 3 ELSE IF frequency_1 > 3500 THEN 2 ELSE 1]

\* TurntableControlOutput.to_plc_command (TIMESTAMP is the output's timestamp)
ToPlcCommand(frequency_1, frequency_2, frequency_3, standby_triggered) ==
    [CMD_TYPE |-> "TURNTABLE_CONTROL",
     TURNTABLE_1 |-> [FREQ_SETPOINT |-> RoundTenths(frequency_1), ENABLE |-> frequency_1 > 0],
     TURNTABLE_2 |-> [FREQ_SETPOINT |-> RoundTenths(frequency_2), ENABLE |-> frequency_2 > 0],
     TURNTABLE_3 |-> [FREQ_SETPOINT |-> RoundTenths(frequency_3), ENABLE |-> standby_triggered],
     ALARM_LEVEL |-> IF standby_triggered THEN 3 ELSE IF frequency_1 > 3500 THEN 2 ELSE 1]

\* TurntableAgent.generate_control_output, with the command to_plc_command
\* builds from the output
GenerateControlOutput(toxicity, toxicity_level, trend) ==
    LET params == DetermineControlParams(toxicity, toxicity_level, trend)
        frequency == params.frequency
        freq_3 == IF params.standby THEN frequency ELSE 0
    IN
    [present |-> TRUE,
     toxicity |-> toxicity, toxicity_level |-> toxicity_level,
     frequency_1 |-> frequency,
     frequency_2 |-> frequency,
     frequency_3 |-> freq_3,
     rpm_1 |-> HzToRpm(frequency),
     rpm_2 |-> HzToRpm(frequency),
     rpm_3 |-> HzToRpm(freq_3),
     active_reactors |-> params.reactors,
     standby_triggered |-> params.standby,
     expected_removal_rate |-> ClampAndRound(CalculateRemovalRate(frequency, toxicity)),
     decision_reason |-> params.reason,
     plc_command |-> ToPlcCommand(frequency, frequency, freq_3, params.standby)]

\* settings.agent.toxicity_low_threshold and toxicity_high_threshold (defaults)
ToxicityLowThreshold == 150
ToxicityHighThreshold == 300

\* plc_commands._hz_to_rpm with poles = 4: frequency * (120 / poles)
PlcHzToRpm(frequency) == frequency * (120 \div 4)

\* plc_commands._calculate_removal_rate
PlcCalculateRemovalRate(frequency, toxicity) ==
    LET removal_rate == KineticRemoval(PlcHzToRpm(frequency)) IN
    IF toxicity > 300 THEN (removal_rate * 9) \div 10 ELSE removal_rate

\* plc_commands.generate_turntable_command (the same fields)
GenerateTurntableCommand(toxicity, toxicity_level, trend) ==
    LET low == toxicity_level = "low" \/ toxicity < ToxicityLowThreshold
        high == toxicity_level = "high" \/ toxicity > ToxicityHighThreshold
        base_freq == IF low THEN 1000 ELSE IF high THEN 4500 ELSE 2500
        reactors == IF low THEN 2 ELSE IF high THEN 3 ELSE 2
        adjusted_freq == Min(5000, Max(500, (base_freq * TrendFactor(trend)) \div 100))
        standby == reactors = 3
        freq_3 == IF standby THEN adjusted_freq ELSE 0
    IN [present |-> TRUE,
        toxicity |-> toxicity, toxicity_level |-> toxicity_level,
        frequency_1 |-> adjusted_freq,
        frequency_2 |-> adjusted_freq,
        frequency_3 |-> freq_3,
        rpm_1 |-> PlcHzToRpm(adjusted_freq),
        rpm_2 |-> PlcHzToRpm(adjusted_freq),
        rpm_3 |-> PlcHzToRpm(freq_3),
        active_reactors |-> reactors,
        standby_triggered |-> standby,
        expected_removal_rate |->
            ClampAndRound(PlcCalculateRemovalRate(adjusted_freq, toxicity)),
        decision_reason |-> BaseReason(low, high) \o TrendReason(trend),
        plc_command |->
            [CMD_TYPE |-> "TURNTABLE_CONTROL",
             TURNTABLE_1 |-> [FREQ_SETPOINT |-> RoundTenths(adjusted_freq),
                              ENABLE |-> adjusted_freq > 0],
             TURNTABLE_2 |-> [FREQ_SETPOINT |-> RoundTenths(adjusted_freq),
                              ENABLE |-> adjusted_freq > 0],
             TURNTABLE_3 |-> [FREQ_SETPOINT |-> RoundTenths(freq_3), ENABLE |-> standby],
             ALARM_LEVEL |-> IF standby THEN 3 ELSE IF adjusted_freq > 3500 THEN 2 ELSE 1]]

\* the arguments the turntable controller is called with on its own:
\* toxicity values of [0,10] around the thresholds 1.5 and 3.0
ToxicityLevels == {"low", "medium", "high"}
Trends == {"rising", "stable", "falling"}
ToxicityValues == {0, 100, 149, 150, 200, 300, 301, 400, 1000}
TurntableControllers == {"TurntableAgent", "generate_turntable_command"}

\* a request that made no turntable decision
NoDecision ==
    [present |-> FALSE, toxicity |-> 0, toxicity_level |-> None,
     frequency_1 |-> 0, frequency_2 |-> 0, frequency_3 |-> 0,
     rpm_1 |-> 0, rpm_2 |-> 0, rpm_3 |-> 0,
     active_reactors |-> 0, standby_triggered |-> FALSE]

----------------------------------------------------------------------------
(* MBRAgent: pressures, fluxes and aeration rates in hundredths *)

\* the parameters of the "mbr_system" equipment in the knowledge base
TmpWarning == 3000
TmpAlarm == 4000
DesignFlux == 2000

\* MBRAgent._assess_fouling_status
AssessFoulingStatus(tmp, flux) ==
    IF tmp >= TmpAlarm
    THEN [status |-> "critical", alarm_level |-> 3, action |-> "chemical_cleaning"]
    ELSE IF tmp >= TmpWarning
    THEN [status |-> "warning", alarm_level |-> 2, action |-> "enhanced_backwash"]
    ELSE IF 10 * tmp >= TmpWarning * 8
    THEN [status |-> "attention", alarm_level |-> 1, action |-> "increase_aeration"]
    ELSE [status |-> "normal", alarm_level |-> 0, action |-> "maintain"]

\* parameters that ask for chemical cleaning at the warning tier only
CalculateControlParamsCleanAtWarning(tmp, current_aeration, current_flux) ==
    LET status == AssessFoulingStatus(tmp, current_flux).status IN
    [aeration_rate |-> IF status = "critical" THEN (current_aeration * 15) \div 10
                       ELSE IF status = "warning" THEN (current_aeration * 12) \div 10
                       ELSE IF status = "attention" THEN (current_aeration * 11) \div 10
                       ELSE current_aeration,
     flux_setpoint |-> IF status = "critical" THEN 0
                       ELSE IF status = "warning" THEN (DesignFlux * 75) \div 100
                       ELSE IF status = "attention" THEN (DesignFlux * 9) \div 10
                       ELSE DesignFlux,
     backwash |-> status \in {"critical", "warning"},
     chemical_clean |-> status = "warning"]

\* MBRAgent._calculate_control_params
CalculateControlParamsKeepFlux(tmp, current_aeration, current_flux) ==
    LET status == AssessFoulingStatus(tmp, current_flux).status IN
    [aeration_rate |-> IF status = "critical" THEN (current_aeration * 15) \div 10
                       ELSE IF status = "warning" THEN (current_aeration * 12) \div 10
                       ELSE current_aeration,
     flux_setpoint |-> DesignFlux,
     backwash |-> status \in {"critical", "warning"},
     chemical_clean |-> status = "critical"]

CalculateControlParams(tmp, current_aeration, current_flux) ==
    LET status == AssessFoulingStatus(tmp, current_flux).status IN
    IF status = "critical"
    THEN [aeration_rate |-> (current_aeration * 15) \div 10, flux_setpoint |-> 0,
          backwash |-> TRUE, chemical_clean |-> TRUE]
    ELSE IF status = "warning"
    THEN [aeration_rate |-> (current_aeration * 12) \div 10,
          flux_setpoint |-> (DesignFlux * 75) \div 100,
          backwash |-> TRUE, chemical_clean |-> FALSE]
    ELSE IF status = "attention"
    THEN [aeration_rate |-> (current_aeration * 11) \div 10,
          flux_setpoint |-> (DesignFlux * 9) \div 10,
          backwash |-> FALSE, chemical_clean |-> FALSE]
    ELSE [aeration_rate |-> current_aeration, flux_setpoint |-> DesignFlux,
          backwash |-> FALSE, chemical_clean |-> FALSE]

\* MBRAgent.generate_control_output (the fields computed from the arguments)
MbrGenerateControlOutput(current_tmp, current_flux, current_aeration) ==
    LET assessment == AssessFoulingStatus(current_tmp, current_flux)
        params == CalculateControlParams(current_tmp, current_aeration, current_flux)
    IN [aeration_rate |-> params.aeration_rate,
        flux_setpoint |-> params.flux_setpoint,
        backwash_needed |-> params.backwash,
        chemical_cleaning_needed |-> params.chemical_clean,
        alarm_level |-> assessment.alarm_level,
        fouling_status |-> assessment.status]

\* the arguments the MBR controller is called with: pressures around 20, 24,
\* 30 and 40 kPa, the default flux and another, aeration rates
TmpValues == {0, 1800, 1999, 2000, 2200, 2399, 2400, 2700, 2999, 3000, 3200,
              3999, 4000, 4200}
FluxValues == {1800, 2000}
AerationValues == {0, 5000, 6000}

----------------------------------------------------------------------------
(* RegenerationAgent: percentages, hours, temperatures and feed rates in    *)
(* hundredths                                                               *)

\* the thresholds of _assess_regeneration_need
EFFICIENCY_THRESHOLD == 8000
REMOVAL_THRESHOLD == 6000
HOURS_THRESHOLD == 72000

\* RegenerationAgent._assess_regeneration_need
AssessRegenerationNeedHoursFirst(adsorption_efficiency, removal_rate, operating_hours) ==
    IF operating_hours > HOURS_THRESHOLD
    THEN [need_regeneration |-> TRUE, mode |-> "normal", urgency |-> "medium"]
    ELSE IF adsorption_efficiency < 6000 \/ removal_rate < 4000
    THEN [need_regeneration |-> TRUE, mode |-> "intensive", urgency |-> "high"]
    ELSE IF adsorption_efficiency < EFFICIENCY_THRESHOLD \/ removal_rate < REMOVAL_THRESHOLD
    THEN [need_regeneration |-> TRUE, mode |-> "normal", urgency |-> "medium"]
    ELSE IF 10 * operating_hours > HOURS_THRESHOLD * 8
    THEN [need_regeneration |-> TRUE, mode |-> "energy_saving", urgency |-> "low"]
    ELSE [need_regeneration |-> FALSE, mode |-> "normal", urgency |-> "low"]

AssessRegenerationNeed(adsorption_efficiency, removal_rate, operating_hours) ==
    IF adsorption_efficiency < 6000 \/ removal_rate < 4000
    THEN [need_regeneration |-> TRUE, mode |-> "intensive", urgency |-> "high"]
    ELSE IF adsorption_efficiency < EFFICIENCY_THRESHOLD \/ removal_rate < REMOVAL_THRESHOLD
    THEN [need_regeneration |-> TRUE, mode |-> "normal", urgency |-> "medium"]
    ELSE IF operating_hours > HOURS_THRESHOLD
    THEN [need_regeneration |-> TRUE, mode |-> "normal", urgency |-> "medium"]
    ELSE IF 10 * operating_hours > HOURS_THRESHOLD * 8
    THEN [need_regeneration |-> TRUE, mode |-> "energy_saving", urgency |-> "low"]
    ELSE [need_regeneration |-> FALSE, mode |-> "normal", urgency |-> "low"]

\* RegenerationAgent._get_mode_parameters with the rules of the knowledge base
GetModeParameters(mode) ==
    CASE mode = "intensive" -> [temperature |-> 85000, feed_rate |-> 4000, duration |-> 600]
      [] mode = "energy_saving" ->
           [temperature |-> 75000, feed_rate |-> 2500, duration |-> 1000]
      [] OTHER -> [temperature |-> 80000, feed_rate |-> 3000, duration |-> 800]

\* self.params["recovery_rate"] of the regeneration system (0.95), in hundredths
RecoveryRate == 95

\* a PLC command that always enables the furnace
RegenToPlcCommandAlwaysEnabled(output) ==
    [CMD_TYPE |-> "REGENERATION_CONTROL",
     FURNACE |-> [TEMP_SETPOINT |-> output.furnace_temperature,
                  FEED_RATE |-> output.feed_rate,
                  ENABLE |-> TRUE],
     MODE |-> Upper(output.regeneration_mode),
     ESTIMATED_DURATION_H |-> output.estimated_duration]

\* RegenerationControlOutput.to_plc_command (TIMESTAMP is the output's
\* timestamp; the set points are multiples of 0.1, so round() keeps them)
RegenToPlcCommand(output) ==
    [CMD_TYPE |-> "REGENERATION_CONTROL",
     FURNACE |-> [TEMP_SETPOINT |-> output.furnace_temperature,
                  FEED_RATE |-> output.feed_rate,
                  ENABLE |-> output.regeneration_needed],
     MODE |-> Upper(output.regeneration_mode),
     ESTIMATED_DURATION_H |-> output.estimated_duration]

\* RegenerationAgent.generate_control_output (the fields computed from the arguments)
RegenGenerateControlOutput(adsorption_efficiency, removal_rate, operating_hours) ==
    LET assessment == AssessRegenerationNeed(adsorption_efficiency, removal_rate,
                                             operating_hours)
        need_regen == assessment.need_regeneration
        params == GetModeParameters(assessment.mode)
        output == [regeneration_needed |-> need_regen,
                   furnace_temperature |-> IF need_regen THEN params.temperature ELSE 0,
                   feed_rate |-> IF need_regen THEN params.feed_rate ELSE 0,
                   regeneration_mode |-> IF need_regen THEN assessment.mode ELSE "standby",
                   estimated_duration |-> IF need_regen THEN params.duration ELSE 0,
                   carbon_recovery_rate |-> RecoveryRate * 100]
    IN [regeneration_needed |-> output.regeneration_needed,
        furnace_temperature |-> output.furnace_temperature,
        feed_rate |-> output.feed_rate,
        regeneration_mode |-> output.regeneration_mode,
        estimated_duration |-> output.estimated_duration,
        carbon_recovery_rate |-> output.carbon_recovery_rate,
        plc_command |-> RegenToPlcCommand(output)]

\* the arguments the regeneration controller is called with: efficiencies
\* around 60 and 80, removal rates around 40 and 60 (70 is the default),
\* operating hours around 576 and 720
EfficiencyValues == {5000, 5999, 6000, 7000, 7999, 8000, 9000}
RemovalValues == {3999, 4000, 5999, 6000, 7000}
HoursValues == {20000, 57600, 57601, 60000, 72000, 72001}

----------------------------------------------------------------------------
(* DiagnosticAgent: scores, percentages, pressures, fluxes and frequencies  *)
(* in hundredths (a confidence of 0.6 is 60); issues and recommendations    *)
(* are written in English                                                   *)

\* DiagnosticAgent._score_to_health_level
ScoreToHealthLevelGoodFrom80(score) ==
    IF score >= 9000 THEN "excellent"
    ELSE IF score >= 8000 THEN "good"
    ELSE IF score >= 6000 THEN "attention"
    ELSE IF score >= 4000 THEN "warning"
    ELSE "critical"

ScoreToHealthLevel(score) ==
    IF score >= 9000 THEN "excellent"
    ELSE IF score >= 7500 THEN "good"
    ELSE IF score >= 6000 THEN "attention"
    ELSE IF score >= 4000 THEN "warning"
    ELSE "critical"

\* one finding of an evaluation: score -= deduction, issues.append(...),
\* recommendations.append(...)
Finding(deduction, issues, recommendations) ==
    [deduction |-> deduction, issues |-> issues, recommendations |-> recommendations]

NoFinding == Finding(0, << >>, << >>)

RECURSIVE SumDeductions(_)
SumDeductions(findings) ==
    IF findings = << >> THEN 0
    ELSE Head(findings).deduction + SumDeductions(Tail(findings))

RECURSIVE ConcatIssues(_)
ConcatIssues(findings) ==
    IF findings = << >> THEN << >>
    ELSE Head(findings).issues \o ConcatIssues(Tail(findings))

RECURSIVE ConcatRecommendations(_)
ConcatRecommendations(findings) ==
    IF findings = << >> THEN << >>
    ELSE Head(findings).recommendations \o ConcatRecommendations(Tail(findings))

\* the SubsystemStatus an evaluation returns: the level is taken from the
\* score, the reported score is max(0, score)
SubsystemStatus(name, findings) ==
    LET score == 10000 - SumDeductions(findings) IN
    [name |-> name,
     health_level |-> ScoreToHealthLevel(score),
     score |-> Max(0, score),
     issues |-> ConcatIssues(findings),
     recommendations |-> ConcatRecommendations(findings)]

\* DiagnosticAgent._evaluate_toxicity_subsystem
EvaluateToxicitySubsystem(toxicity, confidence, prediction_accuracy) ==
    SubsystemStatus("toxicity prediction system", <<
        IF confidence < 60
        THEN Finding(2000, <<"prediction confidence is low">>,
                     <<"add historical data to improve the model">>)
        ELSE IF confidence < 80
        THEN Finding(1000, <<"prediction confidence is medium">>, << >>)
        ELSE NoFinding,
        IF prediction_accuracy < 7000
        THEN Finding(2500, <<"prediction accuracy is insufficient">>,
                     <<"retrain the prediction model">>)
        ELSE IF prediction_accuracy < 8500
        THEN Finding(1000, << >>, << >>)
        ELSE NoFinding,
        IF toxicity > 500
        THEN Finding(1500, <<"inlet toxicity is high">>,
                     <<"watch the inlet source, strengthen pretreatment">>)
        ELSE NoFinding >>)

\* DiagnosticAgent._evaluate_turntable_subsystem
EvaluateTurntableSubsystem(frequency, removal_rate, standby_triggered) ==
    SubsystemStatus("turntable adsorption system", <<
        IF removal_rate < 5000
        THEN Finding(3000, <<"toxicity removal rate is low">>,
                     <<"check the adsorption capacity of the carbon",
                       "consider a higher running frequency">>)
        ELSE IF removal_rate < 7000
        THEN Finding(1500, <<"removal rate should be improved">>, << >>)
        ELSE NoFinding,
        IF frequency > 4500
        THEN Finding(1000, <<"running frequency is high">>,
                     <<"watch the energy consumption">>)
        ELSE NoFinding,
        IF standby_triggered
        THEN Finding(1500, <<"standby line is in use">>,
                     <<"check the main line for problems">>)
        ELSE NoFinding >>)

\* DiagnosticAgent._evaluate_mbr_subsystem
EvaluateMbrSubsystem(tmp, flux, fouling_status) ==
    SubsystemStatus("MBR membrane system", <<
        IF tmp > 4000
        THEN Finding(3500, <<"TMP far above the limit">>,
                     <<"start chemical cleaning at once">>)
        ELSE IF tmp > 3000
        THEN Finding(2000, <<"TMP is high">>,
                     <<"strengthen backwash, prepare cleaning">>)
        ELSE IF tmp > 2500
        THEN Finding(1000, <<"TMP is near the warning value">>, << >>)
        ELSE NoFinding,
        IF flux < 1000
        THEN Finding(2500, <<"permeate flux is far too low">>, << >>)
        ELSE IF flux < 1500
        THEN Finding(1500, <<"permeate flux is low">>, << >>)
        ELSE NoFinding,
        IF fouling_status = "critical"
        THEN Finding(3000, <<"membrane fouling is severe">>, << >>)
        ELSE IF fouling_status = "warning"
        THEN Finding(1500, <<"membrane fouling is present">>, << >>)
        ELSE NoFinding >>)

\* DiagnosticAgent._evaluate_regeneration_subsystem
EvaluateRegenerationSubsystem(adsorption_efficiency, need_regeneration) ==
    SubsystemStatus("regeneration system", <<
        IF adsorption_efficiency < 6000
        THEN Finding(3000, <<"adsorption efficiency has dropped severely">>,
                     <<"schedule regeneration at once">>)
        ELSE IF adsorption_efficiency < 8000
        THEN Finding(1500, <<"adsorption efficiency has dropped">>, << >>)
        ELSE NoFinding,
        IF need_regeneration
        THEN Finding(1000, <<"regeneration is needed">>,
                     <<"plan the regeneration">>)
        ELSE NoFinding >>)

\* the keys of subsystem_status in insertion order
Subsystems == <<"toxicity", "turntable", "mbr", "regeneration">>

\* an overall score that is the best subsystem's score
OverallScoreOfBest(status) ==
    Max(Max(status["toxicity"].score, status["turntable"].score),
        Max(status["mbr"].score, status["regeneration"].score))

\* sum(s.score for s in subsystem_status.values()) / len(subsystem_status)
OverallScoreOfThree(status) ==
    (status["toxicity"].score + status["turntable"].score + status["mbr"].score) \div 3

OverallScore(status) ==
    (status["toxicity"].score + status["turntable"].score + status["mbr"].score
     + status["regeneration"].score) \div Len(Subsystems)

\* the loop that extends a list with the issues of the subsystems whose
\* level is one of levels
RECURSIVE CollectIssuesFrom(_, _, _)
CollectIssuesFrom(status, levels, i) ==
    IF i > Len(Subsystems) THEN << >>
    ELSE (IF status[Subsystems[i]].health_level \in levels
          THEN status[Subsystems[i]].issues ELSE << >>)
         \o CollectIssuesFrom(status, levels, i + 1)

CollectIssuesCriticalOnly(status, levels) ==
    CollectIssuesFrom(status, levels \ {"warning"}, 1)

CollectIssues(status, levels) == CollectIssuesFrom(status, levels, 1)

\* the elements of a sequence
Range(seq) == { seq[i] : i \in DOMAIN seq }

RECURSIVE Reverse(_)
Reverse(seq) == IF seq = << >> THEN << >> ELSE Reverse(Tail(seq)) \o <<Head(seq)>>

RECURSIVE SetToSeq(_)
SetToSeq(S) ==
    IF S = {} THEN << >>
    ELSE LET x == CHOOSE y \in S : TRUE IN <<x>> \o SetToSeq(S \ {x})

\* list(set(recommendations)): the order of a set of strings depends on the
\* hash seed of the process; two of the orders are kept
HashOrders == {"forward", "backward"}

ListOfSet(seq, order) ==
    IF order = "forward" THEN SetToSeq(Range(seq)) ELSE Reverse(SetToSeq(Range(seq)))

\* seq[:n]
Truncate(seq, n) == SubSeq(seq, 1, Min(n, Len(seq)))

\* DiagnosticAgent.generate_diagnostic_report
GenerateDiagnosticReport(toxicity, confidence, prediction_accuracy, turntable_frequency, turntable_removal_rate, turntable_standby, mbr_tmp, mbr_flux, mbr_fouling, carbon_efficiency, need_regeneration, order) ==
    LET status ==
            [ toxicity |-> EvaluateToxicitySubsystem(toxicity, confidence,
                                                     prediction_accuracy),
              turntable |-> EvaluateTurntableSubsystem(turntable_frequency,
                                turntable_removal_rate, turntable_standby),
              mbr |-> EvaluateMbrSubsystem(mbr_tmp, mbr_flux, mbr_fouling),
              regeneration |-> EvaluateRegenerationSubsystem(carbon_efficiency,
                                                             need_regeneration) ]
        overall_score == OverallScore(status)
        recommendations ==
            status["toxicity"].recommendations \o status["turntable"].recommendations
            \o status["mbr"].recommendations \o status["regeneration"].recommendations
    IN [overall_health |-> ScoreToHealthLevel(overall_score),
        overall_score |-> overall_score,
        subsystem_status |-> status,
        critical_issues |-> CollectIssues(status, {"critical", "warning"}),
        warnings |-> CollectIssues(status, {"attention"}),
        recommendations |-> Truncate(ListOfSet(recommendations, order), 10)]

\* the arguments generate_diagnostic_report is called with
DiagToxicity == {200, 600}
DiagConfidence == {50, 70, 85}
DiagAccuracy == {6000, 9000}
DiagFrequency == {2500, 4600}
DiagRemovalRate == {4000, 7000}
DiagTmp == {2000, 3100, 4100}
DiagFlux == {900, 1800}
DiagFouling == {"normal", "critical"}
DiagEfficiency == {5000, 8500}

\* the arguments _evaluate_mbr_subsystem is called with on its own: the band
\* limits of its three tests and a value on each side
MbrEvalTmp == {2000, 2500, 2600, 3000, 3500, 4000, 4100}
MbrEvalFlux == {900, 1000, 1200, 1500, 1800}
MbrEvalFouling == {"normal", "warning", "critical"}

----------------------------------------------------------------------------
(* Orchestrators: the user request and how it is read *)

\* keywords a request may contain, one or two per intent category:
\*   fankui = "反馈", feedback, zaisheng = "再生", zhenduan = "诊断",
\*   duxing = "毒性", mbr, zhuanpan = "转盘", zhuansu = "转速", zonghe = "综合"
Vocabulary == {"fankui", "feedback", "zaisheng", "zhenduan", "duxing", "mbr",
               "zhuanpan", "zhuansu", "zonghe"}

\* the number written after "毒性" (hundredths); NoNumber: none is written,
\* BadNumber: digits and dots float() rejects, such as "1.2.3"
NoNumber == -1
BadNumber == -2
ToxNumbers == {0, 100, 200, 400}

\* what stands between "毒性" and the number: "shi" for 是, 为 or nothing,
\* "colon" for ":" or "：", "yue" for 约
Separators == {"shi", "colon", "yue"}

UserInputs ==
    { [words |-> ws, toxnum |-> t, sep |-> sp] :
        ws \in { x \in SUBSET Vocabulary : Cardinality(x) <= MaxKeywords },
        t \in ToxNumbers \cup {NoNumber, BadNumber},
        sp \in Separators }

\* a number is written only after "毒性"; without a number there is no separator
WellFormed(input) ==
    /\ input.toxnum # NoNumber => "duxing" \in input.words
    /\ input.toxnum = NoNumber => input.sep = "shi"

\* re.search(r"毒性[...]?\s*([\d.]+)", user_input) with the separators the
\* pattern accepts
SearchToxicity(input, accepted) ==
    IF "duxing" \in input.words /\ input.toxnum # NoNumber /\ input.sep \in accepted
    THEN input.toxnum
    ELSE NoNumber

\* the intents in the order of the if/elif chain of _identify_intent
IntentOrder == <<"collect_feedback", "check_regeneration", "system_diagnostic",
                 "predict_toxicity", "control_mbr", "control_turntable",
                 "full_analysis">>

RECURSIVE FirstMatch(_, _, _)
FirstMatch(keywords, words, i) ==
    IF i > Len(IntentOrder) THEN "general_query"
    ELSE IF keywords[IntentOrder[i]] \cap words # {} THEN IntentOrder[i]
    ELSE FirstMatch(keywords, words, i + 1)

\* the keyword lists of MainOrchestrator._identify_intent, within Vocabulary
Main_Keywords ==
    [ collect_feedback   |-> {"fankui", "feedback"},
      check_regeneration |-> {"zaisheng"},
      system_diagnostic  |-> {"zhenduan"},
      predict_toxicity   |-> {"duxing"},
      control_mbr        |-> {"mbr"},
      control_turntable  |-> {"zhuanpan", "zhuansu"},
      full_analysis      |-> {"zonghe"} ]

\* the keyword lists of AquamindOrchestrator._identify_intent, within Vocabulary
Aq_Keywords ==
    [ collect_feedback   |-> {"fankui"},
      check_regeneration |-> {"zaisheng"},
      system_diagnostic  |-> {"zhenduan"},
      predict_toxicity   |-> {"duxing"},
      control_mbr        |-> {"mbr"},
      control_turntable  |-> {"zhuanpan"},
      full_analysis      |-> {"zonghe"} ]

\* the words of user_input.lower()
InputLower(words) == { Lower(w) : w \in words }

\* MainOrchestrator._identify_intent
Main_IdentifyIntentTurntableFirst(words) ==
    IF Main_Keywords["control_turntable"] \cap InputLower(words) # {}
    THEN "control_turntable"
    ELSE FirstMatch(Main_Keywords, InputLower(words), 1)

Main_IdentifyIntent(words) == FirstMatch(Main_Keywords, InputLower(words), 1)

\* AquamindOrchestrator._identify_intent
Aq_IdentifyIntent(words) == FirstMatch(Aq_Keywords, InputLower(words), 1)

\* the words of the requests whose intent is identified on its own: the
\* keywords, two of them with capitals, and nihao = "你好", which is no keyword
IntentWords == Vocabulary \cup {"MBR", "Feedback", "nihao"}

\* the "toxicity" entry of MainOrchestrator._parse_input
Main_ParseToxicity(input) == SearchToxicity(input, {"shi"})

\* the "toxicity" entry of AquamindOrchestrator._parse_input
Aq_ParseToxicity(input) == SearchToxicity(input, {"shi", "colon"})

\* the 'toxicity' entry of ToxicityAgent._extract_params
Tox_ExtractToxicity(input) == SearchToxicity(input, {"shi", "colon", "yue"})

\* ToxicityAgent._determine_toxicity_level, MainOrchestrator._get_toxicity_level
DetermineToxicityLevel(toxicity) ==
    IF toxicity < 150 THEN "low"
    ELSE IF toxicity < 300 THEN "medium"
    ELSE "high"

\* ToxicityAgent.run: llm_ok is whether agent_executor.invoke returned
ToxicityAgentRun(input, llm_ok) ==
    LET parsed == Tox_ExtractToxicity(input)
        value == IF parsed = NoNumber THEN 200 ELSE parsed
    IN IF parsed = BadNumber \/ ~llm_ok
       THEN [status |-> "error", toxicity_value |-> NoNumber, toxicity_level |-> "unknown"]
       ELSE [status |-> "success", toxicity_value |-> value,
             toxicity_level |-> DetermineToxicityLevel(value)]

\* the system_state an orchestrator is constructed with
InitialSystemState ==
    [toxicity |-> 200, toxicity_level |-> "medium", turntable_frequency |-> 2500,
     mbr_tmp |-> 2000, carbon_efficiency |-> 8500, last_update |-> 0]

Orchestrators == {"MainOrchestrator", "AquamindOrchestrator"}

\* a request whose toxicity prediction did not run or did not succeed
NoReading == [status |-> "none", toxicity_value |-> NoNumber, toxicity_level |-> "unknown"]

\* what one call of run did: the sub-steps that succeeded and failed, what
\* the returned text contains, the toxicity reading and the turntable decision
Request(orch, intent, kind, sections, unavailable, succeeded, failed, reading, decision) ==
    [orchestrator |-> orch, intent |-> intent, kind |-> kind,
     sections |-> sections, unavailable |-> unavailable,
     succeeded |-> succeeded, failed |-> failed,
     reading |-> reading, decision |-> decision,
     order |-> << >>]   \* the sub-agents called, in call order (set by run)

NoRequest == Request(None, None, "none", {}, {}, {}, {}, NoReading, NoDecision)

----------------------------------------------------------------------------
(* MQTT publisher tools: variable names and validation.  The Chinese PLC     *)
(* variable names are written in pinyin:                                    *)
(*   zhuanpanN_pinlv_geiding = "转盘N频率给定", qidong_zhuanpanN = "启动转盘N", *)
(*   qidong_zaishengN = "启动再生N", fengji_qidong = "风机启动",               *)
(*   qidong_jinshuifa_VA01 = "启动进水阀VA01"                                 *)

\* f"转盘{turntable_id}频率给定", f"启动转盘{turntable_id}", f"启动再生{regen_id}"
TurntableFrequencyVar(id) == "zhuanpan" \o ToString(id) \o "_pinlv_geiding"
TurntableStartVar(id) == "qidong_zhuanpan" \o ToString(id)
RegenerationStartVar(id) == "qidong_zaisheng" \o ToString(id)

\* the keys of PLC_VARIABLES the tools of the model write
PLC_VARIABLES ==
    { TurntableFrequencyVar(i) : i \in 1..3 }
    \cup { TurntableStartVar(i) : i \in 1..3 }
    \cup { RegenerationStartVar(i) : i \in 1..3 }
    \cup { "fengji_qidong", "qidong_jinshuifa_VA01" }

\* the entries of VARIABLE_ALIASES for these variables
VARIABLE_ALIASES ==
    [ turntable1_freq |-> TurntableFrequencyVar(1),
      turntable1      |-> TurntableStartVar(1),
      regen1          |-> RegenerationStartVar(1),
      fan             |-> "fengji_qidong",
      va01            |-> "qidong_jinshuifa_VA01" ]

\* _resolve_variable_name
ResolveVariableName(name) ==
    IF Lower(name) \in DOMAIN VARIABLE_ALIASES
    THEN VARIABLE_ALIASES[Lower(name)]
    ELSE name

\* the arguments the tools are called with: ids around 1..3, frequencies in
\* tenths of a hertz around 5 and 50, action strings, variable names
DeviceIds == 0..4
Frequencies == {49, 50, 255, 500, 501}
ActionStrings == {"start", "stop", "START", "Stop", "restart", ""}
CommandNames == {"fan", "FAN", "fengji_qidong", "turntable1_freq",
                 "qidong_jinshuifa_VA01", "qidong_jinshuifa_va01", "Start_Fan",
                 "bogus"}

\* turntable_id not in [1, 2, 3], regen_id not in [1, 2, 3]
InvalidId(id) == id \notin {1, 2, 3}

\* not (5 <= frequency <= 50)
InvalidFrequency(frequency) == ~(50 <= frequency /\ frequency <= 500)

\* action.lower() not in ["start", "stop"]
InvalidAction(action) == Lower(action) \notin {"start", "stop"}

\* the invalid_vars of send_plc_command
InvalidVarsFirstOnly(commands) ==
    IF commands = {} THEN {}
    ELSE LET first == CHOOSE n \in commands : TRUE
         IN IF ResolveVariableName(first) \notin PLC_VARIABLES THEN {first} ELSE {}

InvalidVars(commands) ==
    { var_name \in commands : ResolveVariableName(var_name) \notin PLC_VARIABLES }

\* the resolved_commands of send_plc_command: every value is sent as "1"
ResolvedCommands(commands) ==
    [ v \in { ResolveVariableName(n) : n \in commands } |-> "1" ]

\* a payload {"data": {var_name: value}}
SinglePayload(var_name, value) == [data |-> [v \in {var_name} |-> value]]

\* _publish_mqtt: what happens to the payload
PublishOutcomes == {"published", "not_installed", "connect_failed", "rc_error"}

\* _publish_mqtt
PublishMqtt(pub, payload, outcome) ==
    IF outcome = "published"
    THEN [published |-> Append(pub, payload), success |-> TRUE]
    ELSE [published |-> pub, success |-> FALSE]

\* the record of one tool call
MqttCall(tool, id, frequency, action, commands, success) ==
    [tool |-> tool, id |-> id, frequency |-> frequency, action |-> action,
     commands |-> commands, success |-> success]

NoMqttCall == MqttCall(None, 0, 0, None, {}, FALSE)

----------------------------------------------------------------------------
(* Initial state: freshly constructed objects, no call in flight *)

Workers == {"w1", "w2"}

\* no controller function is being called
NoControllerCall == [op |-> "none"]

\* datetime.now().strftime('%Y-%m-%d %H:%M:%S') at the moment of a controller call
Timestamps == {"2024-01-01 08:00:00", "2024-01-01 08:00:01"}

\* no tool call of the worker has ended yet
NoResult == [tool |-> None, kind |-> "none", agent |-> None, text |-> None]

Init ==
    /\ feedback_history = << >>
    /\ learning_records = EmptyDict
    /\ heap = EmptyDict
    /\ recorded = << >>
    /\ last_call = [op |-> None]
    /\ fb_pc = [w \in Workers |-> "idle"]
    /\ fb_local = [w \in Workers |-> None]
    /\ agent_cache = EmptyDict
    /\ creator_runs = [n \in AgentNames |-> 0]
    /\ instances_created = 0
    /\ sup_pc = [w \in Workers |-> "idle"]
    /\ sup_local = [w \in Workers |-> None]
    /\ tool_result = [w \in Workers |-> NoResult]
    /\ sup_calls = 0
    /\ sup_resets = 0
    /\ system_state = [o \in Orchestrators |-> InitialSystemState]
    /\ last_request = NoRequest
    /\ requests = 0
    /\ published = << >>
    /\ mqtt_last = NoMqttCall
    /\ mqtt_calls = 0
    /\ ctl_call = NoControllerCall
    /\ ctl_kept = NoControllerCall
    /\ command_stats = [total_received |-> 0, total_success |-> 0, total_failed |-> 0]
    /\ status_published = << >>

----------------------------------------------------------------------------
(* FeedbackAgent used by one caller at a time *)

\* FeedbackAgent.record_feedback
RecordFeedback ==
    /\ Len(recorded) < MaxCalls
    /\ \E s \in Scenarios, e \in EffValues, p \in ParamChoices :
         LET fb == ControlFeedback(s[1], s[2], e, p, Len(recorded) + 1)
             after == UpdateLearningRecord(learning_records, heap, fb)
         IN
         /\ feedback_history' = DequeAppend(feedback_history, fb, HistorySize)
         /\ learning_records' = after.records
         /\ heap' = after.heap
         /\ recorded' = Append(recorded, fb)
         /\ last_call' = [op |-> "record_feedback"]
    /\ UNCHANGED <<thrVars, NotFeedback>>

\* FeedbackAgent.get_recommended_parameters
GetRecommended ==
    /\ \E s \in Scenarios :
         last_call' = [op |-> "get_recommended_parameters",
                       agent_name |-> s[1], action |-> s[2],
                       result |-> GetRecommendedParameters(learning_records, heap,
                                                           s[1], s[2])]
    /\ UNCHANGED <<feedback_history, learning_records, heap, recorded>>
    /\ UNCHANGED <<thrVars, NotFeedback>>

Next ==
    \/ RecordFeedback
    \/ GetRecommended

Spec == Init /\ [][Next]_vars

----------------------------------------------------------------------------
(* FeedbackAgent shared by concurrent workers.  The code takes no lock, so    *)
(* another worker may run between any two reads or writes of                  *)
(* record_feedback; each action below is one such read or write.              *)

\* feedbacks the concurrent workers record
ConcurrentScenarios == { <<"turntable", "frequency_control">>, <<"mbr", "tmp_control">> }
ConcurrentEffValues == {60, 100}

Locals(fb) == [feedback |-> fb, record |-> None, n |-> None, sr |-> None, cnt |-> None]

\* record_feedback is entered: self.feedback_history.append(feedback)
W_Append(w) ==
    /\ fb_pc[w] = "idle"
    /\ Len(recorded) < MaxConcurrentCalls
    /\ \E s \in ConcurrentScenarios, e \in ConcurrentEffValues :
         LET fb == ControlFeedback(s[1], s[2], e, [frequency |-> 3000],
                                   Len(recorded) + 1) IN
         /\ feedback_history' = DequeAppend(feedback_history, fb, HistorySize)
         /\ recorded' = Append(recorded, fb)
         /\ fb_local' = [fb_local EXCEPT ![w] = Locals(fb)]
    /\ fb_pc' = [fb_pc EXCEPT ![w] = "check"]
    /\ last_call' = [op |-> "record_feedback"]
    /\ UNCHANGED <<learning_records, heap,
                   NotFeedback>>

\* if scenario_key not in self.learning_records
W_Check(w) ==
    /\ fb_pc[w] = "check"
    /\ fb_pc' = [fb_pc EXCEPT ![w] =
                    IF KeyOf(fb_local[w].feedback) \notin DOMAIN learning_records
                    THEN "create" ELSE "load"]
    /\ UNCHANGED <<fbVars, fb_local,
                   NotFeedback>>

\* self.learning_records[scenario_key] = LearningRecord(...)
W_Create(w) ==
    /\ fb_pc[w] = "create"
    /\ learning_records' = Store(learning_records, KeyOf(fb_local[w].feedback),
                                 NewRef(heap))
    /\ heap' = Store(heap, NewRef(heap), NewLearningRecord(fb_local[w].feedback))
    /\ fb_pc' = [fb_pc EXCEPT ![w] = "idle"]
    /\ fb_local' = [fb_local EXCEPT ![w] = None]
    /\ UNCHANGED <<feedback_history, recorded, last_call,
                   NotFeedback>>

\* record = self.learning_records[scenario_key]
W_Load(w) ==
    /\ fb_pc[w] = "load"
    /\ fb_local' = [fb_local EXCEPT
                       ![w].record = learning_records[KeyOf(fb_local[w].feedback)]]
    /\ fb_pc' = [fb_pc EXCEPT ![w] = "read_n"]
    /\ UNCHANGED <<fbVars, NotFeedback>>

\* n = record.sample_count
W_ReadN(w) ==
    /\ fb_pc[w] = "read_n"
    /\ fb_local' = [fb_local EXCEPT ![w].n = heap[fb_local[w].record].sample_count]
    /\ fb_pc' = [fb_pc EXCEPT ![w] = "read_sr"]
    /\ UNCHANGED <<fbVars, NotFeedback>>

\* the read of record.success_rate on the right-hand side of line 200
W_ReadRate(w) ==
    /\ fb_pc[w] = "read_sr"
    /\ fb_local' = [fb_local EXCEPT ![w].sr = heap[fb_local[w].record].success_rate]
    /\ fb_pc' = [fb_pc EXCEPT ![w] = "write_sr"]
    /\ UNCHANGED <<fbVars, NotFeedback>>

\* record.success_rate = (... * n + feedback.effectiveness) / (n + 1)
W_WriteRate(w) ==
    /\ fb_pc[w] = "write_sr"
    /\ heap' = [heap EXCEPT ![fb_local[w].record].success_rate =
                   IncrementalMean(fb_local[w].sr, fb_local[w].n,
                                   fb_local[w].feedback.effectiveness)]
    /\ fb_pc' = [fb_pc EXCEPT ![w] = "read_cnt"]
    /\ UNCHANGED <<feedback_history, learning_records, recorded, last_call, fb_local,
                   NotFeedback>>

\* record.sample_count += 1: the read
W_ReadCount(w) ==
    /\ fb_pc[w] = "read_cnt"
    /\ fb_local' = [fb_local EXCEPT ![w].cnt = heap[fb_local[w].record].sample_count]
    /\ fb_pc' = [fb_pc EXCEPT ![w] = "write_cnt"]
    /\ UNCHANGED <<fbVars, NotFeedback>>

\* record.sample_count += 1: the write
W_WriteCount(w) ==
    /\ fb_pc[w] = "write_cnt"
    /\ heap' = [heap EXCEPT ![fb_local[w].record].sample_count = fb_local[w].cnt + 1]
    /\ fb_pc' = [fb_pc EXCEPT ![w] = "write_ts"]
    /\ UNCHANGED <<feedback_history, learning_records, recorded, last_call, fb_local,
                   NotFeedback>>

\* record.last_updated = feedback.timestamp
W_WriteUpdated(w) ==
    /\ fb_pc[w] = "write_ts"
    /\ heap' = [heap EXCEPT ![fb_local[w].record].last_updated =
                   fb_local[w].feedback.timestamp]
    /\ fb_pc' = [fb_pc EXCEPT ![w] = "write_opt"]
    /\ UNCHANGED <<feedback_history, learning_records, recorded, last_call, fb_local,
                   NotFeedback>>

\* if feedback.effectiveness > 0.8: record.optimal_parameters = ...copy()
W_WriteOptimal(w) ==
    /\ fb_pc[w] = "write_opt"
    /\ heap' = IF IsBetter(fb_local[w].feedback.effectiveness)
               THEN [heap EXCEPT ![fb_local[w].record].optimal_parameters =
                        fb_local[w].feedback.parameters]
               ELSE heap
    /\ fb_pc' = [fb_pc EXCEPT ![w] = "idle"]
    /\ fb_local' = [fb_local EXCEPT ![w] = None]
    /\ UNCHANGED <<feedback_history, learning_records, recorded, last_call,
                   NotFeedback>>

NextConcurrent ==
    \E w \in Workers :
        \/ W_Append(w)
        \/ W_Check(w)
        \/ W_Create(w)
        \/ W_Load(w)
        \/ W_ReadN(w)
        \/ W_ReadRate(w)
        \/ W_WriteRate(w)
        \/ W_ReadCount(w)
        \/ W_WriteCount(w)
        \/ W_WriteUpdated(w)
        \/ W_WriteOptimal(w)

SpecConcurrent == Init /\ [][NextConcurrent]_vars

----------------------------------------------------------------------------
(* Supervisor tools run by concurrent workers.  _agent_cache is a module      *)
(* global read and written without a lock; each action is one step of         *)
(* invoke_<name>_agent between which another worker may run.                  *)

ToolLocals(name) == [agent_name |-> name, instance |-> None, agent |-> None]

ToolResult(name, kind, agent, text) ==
    [tool |-> name, kind |-> kind, agent |-> agent, text |-> text]

\* invoke_<name>_agent is called; _get_or_create_agent tests
\* `agent_name not in _agent_cache`
S_Check(w) ==
    /\ sup_pc[w] = "idle"
    /\ sup_calls < MaxToolCalls
    /\ \E name \in AgentNames :
         /\ sup_local' = [sup_local EXCEPT ![w] = ToolLocals(name)]
         /\ sup_pc' = [sup_pc EXCEPT ![w] =
                         IF name \notin DOMAIN agent_cache THEN "create" ELSE "return"]
    /\ sup_calls' = sup_calls + 1
    /\ tool_result' = [tool_result EXCEPT ![w] = NoResult]
    /\ UNCHANGED <<agent_cache, creator_runs, instances_created, sup_resets,
                   NotSupervisor>>

\* creator_func() returns a new instance
S_CreateOk(w) ==
    /\ sup_pc[w] = "create"
    /\ instances_created' = instances_created + 1
    /\ creator_runs' = [creator_runs EXCEPT ![sup_local[w].agent_name] = @ + 1]
    /\ sup_local' = [sup_local EXCEPT ![w].instance = instances_created + 1]
    /\ sup_pc' = [sup_pc EXCEPT ![w] = "store"]
    /\ UNCHANGED <<agent_cache, tool_result, sup_calls, sup_resets, NotSupervisor>>

\* creator_func() raises: nothing in _get_or_create_agent or in the tool, whose
\* try begins after the call, catches it
S_CreateFails(w) ==
    /\ sup_pc[w] = "create"
    /\ tool_result' = [tool_result EXCEPT ![w] =
                          ToolResult(sup_local[w].agent_name, "raised", None, None)]
    /\ sup_pc' = [sup_pc EXCEPT ![w] = "idle"]
    /\ sup_local' = [sup_local EXCEPT ![w] = None]
    /\ UNCHANGED <<agent_cache, creator_runs, instances_created, sup_calls,
                   sup_resets, NotSupervisor>>

\* _agent_cache[agent_name] = <the new instance>
S_Store(w) ==
    /\ sup_pc[w] = "store"
    /\ agent_cache' = Store(agent_cache, sup_local[w].agent_name, sup_local[w].instance)
    /\ sup_pc' = [sup_pc EXCEPT ![w] = "return"]
    /\ UNCHANGED <<creator_runs, instances_created, sup_local, tool_result,
                   sup_calls, sup_resets, NotSupervisor>>

\* return _agent_cache[agent_name]: a KeyError if the entry is gone
S_Return(w) ==
    /\ sup_pc[w] = "return"
    /\ IF sup_local[w].agent_name \in DOMAIN agent_cache
       THEN /\ sup_local' = [sup_local EXCEPT
                               ![w].agent = agent_cache[sup_local[w].agent_name]]
            /\ sup_pc' = [sup_pc EXCEPT ![w] = "invoke"]
            /\ UNCHANGED tool_result
       ELSE /\ tool_result' = [tool_result EXCEPT ![w] =
                                 ToolResult(sup_local[w].agent_name, "raised", None, None)]
            /\ sup_pc' = [sup_pc EXCEPT ![w] = "idle"]
            /\ sup_local' = [sup_local EXCEPT ![w] = None]
    /\ UNCHANGED <<agent_cache, creator_runs, instances_created, sup_calls,
                   sup_resets, NotSupervisor>>

\* try: return _invoke_agent(agent, query)
S_InvokeOk(w) ==
    /\ sup_pc[w] = "invoke"
    /\ tool_result' = [tool_result EXCEPT ![w] =
                          ToolResult(sup_local[w].agent_name, "result",
                                     sup_local[w].agent, None)]
    /\ sup_pc' = [sup_pc EXCEPT ![w] = "idle"]
    /\ sup_local' = [sup_local EXCEPT ![w] = None]
    /\ UNCHANGED <<agent_cache, creator_runs, instances_created, sup_calls,
                   sup_resets, NotSupervisor>>

\* except Exception as e: return f"<subsystem> failed: {e}"
S_InvokeFails(w) ==
    /\ sup_pc[w] = "invoke"
    /\ tool_result' = [tool_result EXCEPT ![w] =
                          ToolResult(sup_local[w].agent_name, "error_message",
                                     sup_local[w].agent,
                                     ToolErrorPrefix[sup_local[w].agent_name])]
    /\ sup_pc' = [sup_pc EXCEPT ![w] = "idle"]
    /\ sup_local' = [sup_local EXCEPT ![w] = None]
    /\ UNCHANGED <<agent_cache, creator_runs, instances_created, sup_calls,
                   sup_resets, NotSupervisor>>

\* AquamindSupervisor.reset_agents: _agent_cache.clear()
ResetAgents ==
    /\ sup_resets < MaxResets
    /\ agent_cache' = EmptyDict
    /\ creator_runs' = [n \in AgentNames |-> 0]
    /\ sup_resets' = sup_resets + 1
    /\ tool_result' = [w \in Workers |-> NoResult]
    /\ UNCHANGED <<instances_created, sup_pc, sup_local, sup_calls, NotSupervisor>>

NextSupervisor ==
    \/ \E w \in Workers :
          \/ S_Check(w)
          \/ S_CreateOk(w)
          \/ S_CreateFails(w)
          \/ S_Store(w)
          \/ S_Return(w)
          \/ S_InvokeOk(w)
          \/ S_InvokeFails(w)
    \/ ResetAgents

SpecSupervisor == Init /\ [][NextSupervisor]_vars

----------------------------------------------------------------------------
(* Orchestrators: one request each action.  tox_ok, ctl_ok and fb_ok say      *)
(* whether the language-model call of ToxicityAgent.run, ControlAgent.run     *)
(* and FeedbackAgent.run returned; each of these three catches its own        *)
(* exception and reports status "error".                                      *)

\* the sub-agents MainOrchestrator.run calls for an intent
Main_Invoked(intent) ==
    (IF intent \in {"predict_toxicity", "full_analysis"} THEN {"toxicity"} ELSE {})
    \cup (IF intent \in {"control_turntable", "full_analysis"} THEN {"turntable"} ELSE {})
    \cup (IF intent \in {"control_mbr", "full_analysis"} THEN {"mbr"} ELSE {})
    \cup (IF intent \in {"check_regeneration", "full_analysis"} THEN {"regeneration"} ELSE {})
    \cup (IF intent \in {"system_diagnostic", "full_analysis"} THEN {"diagnostic"} ELSE {})
    \cup (IF intent \in {"collect_feedback", "full_analysis"} THEN {"feedback"} ELSE {})

\* the sub-agents MainOrchestrator.run calls for an intent, in call order:
\* six independent if statements
Main_InvokedOrder(intent) ==
    (IF intent = "predict_toxicity" \/ intent = "full_analysis"
     THEN <<"toxicity">> ELSE << >>)
    \o (IF intent \in {"control_turntable", "full_analysis"} THEN <<"turntable">> ELSE << >>)
    \o (IF intent \in {"control_mbr", "full_analysis"} THEN <<"mbr">> ELSE << >>)
    \o (IF intent \in {"check_regeneration", "full_analysis"}
        THEN <<"regeneration">> ELSE << >>)
    \o (IF intent \in {"system_diagnostic", "full_analysis"}
        THEN <<"diagnostic">> ELSE << >>)
    \o (IF intent \in {"collect_feedback", "full_analysis"} THEN <<"feedback">> ELSE << >>)

\* a report writer that leaves the feedback section out
Main_ReportSectionsNoFeedback(results) ==
    results \cap {"toxicity", "turntable", "mbr", "regeneration", "diagnostic"}

\* the subsystem sections MainOrchestrator._generate_report writes for the
\* keys of results: one 'if "<key>" in results' per section
Main_ReportSections(results) ==
    (IF "toxicity" \in results THEN {"toxicity"} ELSE {})
    \cup (IF "turntable" \in results THEN {"turntable"} ELSE {})
    \cup (IF "mbr" \in results THEN {"mbr"} ELSE {})
    \cup (IF "regeneration" \in results THEN {"regeneration"} ELSE {})
    \cup (IF "diagnostic" \in results THEN {"diagnostic"} ELSE {})
    \cup (IF "feedback" \in results THEN {"feedback"} ELSE {})

\* the advanced agents AquamindOrchestrator.run calls for an intent, in call order
Aq_InvokedOrder(intent) ==
    (IF intent \in {"control_turntable", "full_analysis"} THEN <<"turntable">> ELSE << >>)
    \o (IF intent \in {"control_mbr", "full_analysis"} THEN <<"mbr">> ELSE << >>)
    \o (IF intent \in {"check_regeneration", "full_analysis"}
        THEN <<"regeneration">> ELSE << >>)
    \o (IF intent \in {"system_diagnostic", "full_analysis"}
        THEN <<"diagnostic">> ELSE << >>)
    \o (IF intent \in {"collect_feedback"} THEN <<"feedback">> ELSE << >>)

\* the advanced agents AquamindOrchestrator.run calls for an intent
Aq_Invoked(intent) ==
    (IF intent \in {"control_turntable", "full_analysis"} THEN {"turntable"} ELSE {})
    \cup (IF intent \in {"control_mbr", "full_analysis"} THEN {"mbr"} ELSE {})
    \cup (IF intent \in {"check_regeneration", "full_analysis"} THEN {"regeneration"} ELSE {})
    \cup (IF intent \in {"system_diagnostic", "full_analysis"} THEN {"diagnostic"} ELSE {})
    \cup (IF intent \in {"collect_feedback"} THEN {"feedback"} ELSE {})

\* the sections AquamindOrchestrator._generate_report writes
Aq_ReportSections(advanced) ==
    {"toxicity", "control"} \cup (advanced \cap {"turntable", "mbr", "regeneration", "diagnostic"})

\* MainOrchestrator.run
Main_Run ==
    /\ requests < MaxRequests
    /\ requests' = requests + 1
    /\ \E input \in UserInputs, tox_ok \in BOOLEAN, fb_ok \in BOOLEAN :
         /\ WellFormed(input)
         /\ LET o == "MainOrchestrator"
                state == system_state[o]
                parsed == Main_ParseToxicity(input)
                intent == Main_IdentifyIntent(input.words)
                invoked == Main_Invoked(intent)
                tox == ToxicityAgentRun(input, tox_ok)
                failed == (IF "toxicity" \in invoked /\ tox.status # "success"
                           THEN {"toxicity"} ELSE {})
                          \cup (IF "feedback" \in invoked /\ ~fb_ok
                                THEN {"feedback"} ELSE {})
                \* params.get("toxicity") or self.system_state.get("toxicity", 2.0)
                toxicity == IF parsed = NoNumber \/ parsed = 0 THEN state.toxicity
                            ELSE parsed
                decision == IF "turntable" \in invoked
                            THEN GenerateControlOutput(toxicity,
                                     DetermineToxicityLevel(toxicity), "stable")
                            ELSE NoDecision
            IN IF parsed = BadNumber
               THEN \* float() raises inside _parse_input, run does not catch it
                    /\ last_request' = Request(o, None, "raised", {}, {}, {}, {}, NoReading, NoDecision)
                    /\ UNCHANGED system_state
               ELSE /\ last_request' =
                         [Request(o, intent, "report",
                                  Main_ReportSections(Range(Main_InvokedOrder(intent))),
                                  failed, invoked \ failed, failed,
                                  IF "toxicity" \in invoked \ failed
                                  THEN tox ELSE NoReading,
                                  decision)
                          EXCEPT !.order = Main_InvokedOrder(intent)]
                    /\ system_state' =
                         IF "toxicity" \in invoked /\ tox.status = "success"
                         THEN [system_state EXCEPT ![o].last_update = requests + 1]
                         ELSE system_state
    /\ UNCHANGED NotOrchestrator

\* AquamindOrchestrator.run
Aq_Run ==
    /\ requests < MaxRequests
    /\ requests' = requests + 1
    /\ \E input \in UserInputs, tox_ok \in BOOLEAN, ctl_ok \in BOOLEAN, fb_ok \in BOOLEAN :
         /\ WellFormed(input)
         /\ LET o == "AquamindOrchestrator"
                parsed == Aq_ParseToxicity(input)
                intent == Aq_IdentifyIntent(input.words)
                tox == ToxicityAgentRun(input, tox_ok)
                after_tox == [system_state EXCEPT
                                ![o].toxicity = tox.toxicity_value,
                                ![o].toxicity_level = tox.toxicity_level,
                                ![o].last_update = requests + 1]
                advanced == Aq_Invoked(intent)
                fb_failed == IF "feedback" \in advanced /\ ~fb_ok THEN {"feedback"} ELSE {}
                decision == IF "turntable" \in advanced
                            THEN GenerateControlOutput(tox.toxicity_value,
                                                       tox.toxicity_level, "stable")
                            ELSE NoDecision
            IN IF parsed = BadNumber
               THEN \* float() raises inside _parse_input, run does not catch it
                    /\ last_request' = Request(o, None, "raised", {}, {}, {}, {}, NoReading, NoDecision)
                    /\ UNCHANGED system_state
               ELSE IF tox.status # "success"
               THEN \* return "流程中断：毒性预测失败 - ..."
                    /\ last_request' = [Request(o, intent, "aborted", {}, {"toxicity"},
                                                {}, {"toxicity"}, NoReading, NoDecision)
                                        EXCEPT !.order = <<"toxicity">>]
                    /\ UNCHANGED system_state
               ELSE IF ~ctl_ok
               THEN \* return "流程中断：控制建议生成失败 - ..."
                    /\ last_request' = [Request(o, intent, "aborted", {}, {"control"},
                                                {"toxicity"}, {"control"}, tox, NoDecision)
                                        EXCEPT !.order = <<"toxicity", "control">>]
                    /\ system_state' = after_tox
               ELSE /\ last_request' =
                         [Request(o, intent, "report",
                                  Aq_ReportSections(advanced), {},
                                  {"toxicity", "control"} \cup (advanced \ fb_failed),
                                  fb_failed, tox, decision)
                          EXCEPT !.order = <<"toxicity", "control">> \o Aq_InvokedOrder(intent)]
                    /\ system_state' = after_tox
    /\ UNCHANGED NotOrchestrator

NextOrchestrator ==
    \/ Main_Run
    \/ Aq_Run

SpecOrchestrator == Init /\ [][NextOrchestrator]_vars

----------------------------------------------------------------------------
(* MQTT publisher tools: one tool call each action *)

\* set_turntable_frequency
SetTurntableFrequency ==
    /\ mqtt_calls < MaxMqttCalls
    /\ mqtt_calls' = mqtt_calls + 1
    /\ \E turntable_id \in DeviceIds, frequency \in Frequencies, outcome \in PublishOutcomes :
         LET payload == SinglePayload(TurntableFrequencyVar(turntable_id),
                                      ToString(frequency \div 10))
             result == PublishMqtt(published, payload, outcome)
         IN IF InvalidId(turntable_id) \/ InvalidFrequency(frequency)
            THEN /\ mqtt_last' = MqttCall("set_turntable_frequency", turntable_id,
                                          frequency, None, {}, FALSE)
                 /\ UNCHANGED published
            ELSE /\ mqtt_last' = MqttCall("set_turntable_frequency", turntable_id,
                                          frequency, None, {}, result.success)
                 /\ published' = result.published
    /\ UNCHANGED NotMqtt

\* control_turntable
ControlTurntable ==
    /\ mqtt_calls < MaxMqttCalls
    /\ mqtt_calls' = mqtt_calls + 1
    /\ \E turntable_id \in DeviceIds, action \in ActionStrings, outcome \in PublishOutcomes :
         LET value == IF Lower(action) = "start" THEN "1" ELSE "0"
             payload == SinglePayload(TurntableStartVar(turntable_id), value)
             result == PublishMqtt(published, payload, outcome)
         IN IF InvalidId(turntable_id) \/ InvalidAction(action)
            THEN /\ mqtt_last' = MqttCall("control_turntable", turntable_id, 0,
                                          action, {}, FALSE)
                 /\ UNCHANGED published
            ELSE /\ mqtt_last' = MqttCall("control_turntable", turntable_id, 0,
                                          action, {}, result.success)
                 /\ published' = result.published
    /\ UNCHANGED NotMqtt

\* control_regeneration
ControlRegeneration ==
    /\ mqtt_calls < MaxMqttCalls
    /\ mqtt_calls' = mqtt_calls + 1
    /\ \E regen_id \in DeviceIds, action \in ActionStrings, outcome \in PublishOutcomes :
         LET value == IF Lower(action) = "start" THEN "1" ELSE "0"
             payload == SinglePayload(RegenerationStartVar(regen_id), value)
             result == PublishMqtt(published, payload, outcome)
         IN IF InvalidId(regen_id) \/ InvalidAction(action)
            THEN /\ mqtt_last' = MqttCall("control_regeneration", regen_id, 0,
                                          action, {}, FALSE)
                 /\ UNCHANGED published
            ELSE /\ mqtt_last' = MqttCall("control_regeneration", regen_id, 0,
                                          action, {}, result.success)
                 /\ published' = result.published
    /\ UNCHANGED NotMqtt

\* send_plc_command
SendPlcCommand ==
    /\ mqtt_calls < MaxMqttCalls
    /\ mqtt_calls' = mqtt_calls + 1
    /\ \E commands \in { c \in SUBSET CommandNames : Cardinality(c) <= MaxCommands },
          outcome \in PublishOutcomes :
         LET payload == [data |-> ResolvedCommands(commands)]
             result == PublishMqtt(published, payload, outcome)
         IN IF InvalidVars(commands) # {}
            THEN /\ mqtt_last' = MqttCall("send_plc_command", 0, 0, None, commands, FALSE)
                 /\ UNCHANGED published
            ELSE /\ mqtt_last' = MqttCall("send_plc_command", 0, 0, None, commands,
                                          result.success)
                 /\ published' = result.published
    /\ UNCHANGED NotMqtt

NextMqtt ==
    \/ SetTurntableFrequency
    \/ ControlTurntable
    \/ ControlRegeneration
    \/ SendPlcCommand

SpecMqtt == Init /\ [][NextMqtt]_vars

----------------------------------------------------------------------------
(* The controller functions called on their own.  They keep no state: a     *)
(* call computes its output from its arguments, and the caller takes the    *)
(* output before the next call.                                             *)

\* MainOrchestrator._identify_intent, AquamindOrchestrator._identify_intent
IdentifyIntent ==
    /\ ctl_call = NoControllerCall
    /\ \E o \in Orchestrators,
          words \in { x \in SUBSET IntentWords : Cardinality(x) <= MaxIntentWords } :
         ctl_call' = [op |-> "identify_intent", orchestrator |-> o, words |-> words,
                      result |-> IF o = "MainOrchestrator"
                                 THEN Main_IdentifyIntent(words)
                                 ELSE Aq_IdentifyIntent(words)]
    /\ UNCHANGED <<ctl_kept, NotController>>

\* TurntableAgent.generate_control_output, plc_commands.generate_turntable_command
TurntableControl ==
    /\ ctl_call = NoControllerCall
    /\ \E c \in TurntableControllers, toxicity \in ToxicityValues,
          toxicity_level \in ToxicityLevels, trend \in Trends, now \in Timestamps :
         ctl_call' = [op |-> "turntable", controller |-> c, toxicity |-> toxicity,
                      toxicity_level |-> toxicity_level, trend |-> trend,
                      timestamp |-> now,
                      output |-> IF c = "TurntableAgent"
                                 THEN GenerateControlOutput(toxicity, toxicity_level, trend)
                                 ELSE GenerateTurntableCommand(toxicity, toxicity_level, trend)]
    /\ UNCHANGED <<ctl_kept, NotController>>

\* MBRAgent.generate_control_output
MbrControl ==
    /\ ctl_call = NoControllerCall
    /\ \E tmp \in TmpValues, flux \in FluxValues, aeration \in AerationValues,
          now \in Timestamps :
         ctl_call' = [op |-> "mbr", current_tmp |-> tmp, current_flux |-> flux,
                      current_aeration |-> aeration, timestamp |-> now,
                      output |-> MbrGenerateControlOutput(tmp, flux, aeration)]
    /\ UNCHANGED <<ctl_kept, NotController>>

\* RegenerationAgent.generate_control_output
RegenerationControl ==
    /\ ctl_call = NoControllerCall
    /\ \E efficiency \in EfficiencyValues, removal \in RemovalValues, hours \in HoursValues,
          now \in Timestamps :
         ctl_call' = [op |-> "regeneration", adsorption_efficiency |-> efficiency,
                      removal_rate |-> removal, operating_hours |-> hours,
                      timestamp |-> now,
                      output |-> RegenGenerateControlOutput(efficiency, removal, hours)]
    /\ UNCHANGED <<ctl_kept, NotController>>

\* DiagnosticAgent.generate_diagnostic_report
DiagnosticReport ==
    /\ ctl_call = NoControllerCall
    /\ \E toxicity \in DiagToxicity, confidence \in DiagConfidence,
          accuracy \in DiagAccuracy, frequency \in DiagFrequency,
          removal \in DiagRemovalRate, standby \in BOOLEAN,
          tmp \in DiagTmp, flux \in DiagFlux, fouling \in DiagFouling,
          efficiency \in DiagEfficiency, need \in BOOLEAN, order \in HashOrders :
         ctl_call' = [op |-> "diagnostic",
                      report |-> GenerateDiagnosticReport(toxicity, confidence, accuracy,
                                     frequency, removal, standby, tmp, flux, fouling,
                                     efficiency, need, order)]
    /\ UNCHANGED <<ctl_kept, NotController>>

\* DiagnosticAgent._evaluate_mbr_subsystem
EvaluateMbrSubsystemCall ==
    /\ ctl_call = NoControllerCall
    /\ \E tmp \in MbrEvalTmp, flux \in MbrEvalFlux, fouling \in MbrEvalFouling :
         ctl_call' = [op |-> "evaluate_mbr", tmp |-> tmp, flux |-> flux,
                      fouling_status |-> fouling,
                      status |-> EvaluateMbrSubsystem(tmp, flux, fouling)]
    /\ UNCHANGED <<ctl_kept, NotController>>

\* FeedbackAgent.calculate_effectiveness
CalculateEffectivenessCall ==
    /\ ctl_call = NoControllerCall
    /\ \E expected \in ExpectedValues, actual \in ActualValues,
          tolerance \in ToleranceValues :
         ctl_call' = [op |-> "calculate_effectiveness", expected |-> expected,
                      actual |-> actual, tolerance |-> tolerance,
                      result |-> CalculateEffectiveness(expected, actual, tolerance)]
    /\ UNCHANGED <<ctl_kept, NotController>>

\* the caller takes the output of the call
ControllerReturn ==
    /\ ctl_call # NoControllerCall
    /\ ctl_call' = NoControllerCall
    /\ UNCHANGED <<ctl_kept, NotController>>

NextControllers ==
    \/ IdentifyIntent
    \/ TurntableControl
    \/ MbrControl
    \/ RegenerationControl
    \/ DiagnosticReport
    \/ EvaluateMbrSubsystemCall
    \/ CalculateEffectivenessCall
    \/ ControllerReturn

SpecControllers == Init /\ [][NextControllers]_vars

----------------------------------------------------------------------------
(* plc_write_handler: the on_message callback of the plc/write topic.  One  *)
(* action is one callback, from the message's arrival to its return.        *)

\* the payloads a message can carry:
\*   command       {"data": {<variable>: <value>, ...}}
\*   no_data       a JSON object without a "data" field
\*   data_not_dict a JSON object whose "data" is not an object (.items() raises)
\*   not_object    JSON that is not an object, e.g. 5 ('"data" not in 5' raises)
\*   invalid_json  text json.loads rejects
PayloadKinds == {"command", "no_data", "data_not_dict", "not_object", "invalid_json"}

\* client.publish(status_topic, ...) returns or raises
StatusPublishOutcomes == {"ok", "raises"}

\* process_plc_command: the result's success flag, or the exception it raises
ProcessPlcCommand(payload) ==
    CASE payload = "command" -> [kind |-> "result", success |-> TRUE]
      [] payload = "no_data" -> [kind |-> "result", success |-> FALSE]
      [] OTHER -> [kind |-> "raised", success |-> FALSE]

\* on_message: command_stats after the callback has returned
OnMessageStats(stats, payload, publish) ==
    LET received == [stats EXCEPT !.total_received = @ + 1]
        result == ProcessPlcCommand(payload)
        \* after the if/else on result["success"]
        counted == IF result.success
                   THEN [received EXCEPT !.total_success = @ + 1]
                   ELSE [received EXCEPT !.total_failed = @ + 1]
    IN IF payload = "invalid_json"
       THEN \* except json.JSONDecodeError
            [received EXCEPT !.total_failed = @ + 1]
       ELSE IF result.kind = "raised"
       THEN \* except Exception
            [received EXCEPT !.total_failed = @ + 1]
       ELSE IF publish = "raises"
       THEN \* except Exception, after the result was counted
            [counted EXCEPT !.total_failed = @ + 1]
       ELSE counted

\* on_message
OnMessage ==
    /\ command_stats.total_received < MaxMessages
    /\ \E payload \in PayloadKinds, publish \in StatusPublishOutcomes :
         /\ command_stats' = OnMessageStats(command_stats, payload, publish)
         /\ status_published' =
              IF payload # "invalid_json" /\ ProcessPlcCommand(payload).kind = "result"
                 /\ publish = "ok"
              THEN Append(status_published, ProcessPlcCommand(payload).success)
              ELSE status_published
    /\ UNCHANGED NotPlcWrite

NextPlcWrite == OnMessage

SpecPlcWrite == Init /\ [][NextPlcWrite]_vars

----------------------------------------------------------------------------
(* A caller that keeps the output of one generate_control_output call and   *)
(* goes on calling the controllers and the learner.                         *)

ControlOps == {"turntable", "mbr", "regeneration"}

\* the caller takes the output of a generate_control_output call and keeps it
KeepOutput ==
    /\ ctl_call.op \in ControlOps
    /\ ctl_kept' = ctl_call
    /\ ctl_call' = NoControllerCall
    /\ UNCHANGED NotController

NextRepeatedCalls ==
    \/ TurntableControl
    \/ MbrControl
    \/ RegenerationControl
    \/ CalculateEffectivenessCall
    \/ ControllerReturn
    \/ KeepOutput

SpecRepeatedCalls == Init /\ [][NextRepeatedCalls]_vars

----------------------------------------------------------------------------
(* Claims about the FeedbackAgent (specification Spec) *)


\* the last k elements of a sequence
LastK(seq, k) == SubSeq(seq, Len(seq) - k + 1, Len(seq))

\* the feedbacks of `recorded` whose scenario key is key, in arrival order
OfKey(key) == SelectSeq(recorded, LAMBDA fb : KeyOf(fb) = key)

RECURSIVE SumEff(_)
SumEff(seq) == IF seq = << >> THEN 0 ELSE Head(seq).effectiveness + SumEff(Tail(seq))

RecordedKeys == { KeyOf(recorded[i]) : i \in 1..Len(recorded) }

\* the LearningRecord the dictionary holds for a key
RecordOf(key) == heap[learning_records[key]]

\* C1: after any sequence of record_feedback calls, feedback_history holds at
\* most HistorySize entries and holds exactly the last min(k, HistorySize)
\* recorded feedbacks in arrival order, k being the number of calls so far
\* (the oldest entry is the one evicted).
C1_BoundedFifoHistory ==
    /\ Len(feedback_history) <= HistorySize
    /\ feedback_history = LastK(recorded, Min(Len(recorded), HistorySize))

\* C1 witness: more feedbacks were recorded than the history holds, so the
\* oldest one has been evicted and the history starts at the second.
C1_Witness ==
    /\ Len(recorded) > HistorySize
    /\ Len(feedback_history) = HistorySize
    /\ feedback_history[1] = recorded[Len(recorded) - HistorySize + 1]
    /\ feedback_history[1] # recorded[1]

\* C2: for every scenario key, sample_count is the number of feedbacks ever
\* recorded for the key (evicted ones included) and success_rate is the
\* arithmetic mean of their effectiveness values.
C2_IncrementalMean ==
    /\ DOMAIN learning_records = RecordedKeys
    /\ \A key \in DOMAIN learning_records :
         LET fbs == OfKey(key) IN
         /\ RecordOf(key).sample_count = Len(fbs)
         /\ RatEq(RecordOf(key).success_rate, <<SumEff(fbs), 100 * Len(fbs)>>)

\* C2 witness: a key that received 0.6 and then 1.0 has success_rate 0.8, and
\* a key whose three samples outnumber the history kept for them.
C2_Witness ==
    \E key \in DOMAIN learning_records :
        LET fbs == OfKey(key) IN
        \/ /\ Len(fbs) = 2
           /\ fbs[1].effectiveness = 60 /\ fbs[2].effectiveness = 100
           /\ RecordOf(key).success_rate = <<4, 5>>
        \/ /\ Len(fbs) > HistorySize
           /\ RecordOf(key).sample_count = Len(fbs)

\* C3: a feedback recorded for a key that already has a LearningRecord replaces
\* the record's optimal_parameters by its parameters if and only if its
\* effectiveness is strictly above 0.8; at or below 0.8 optimal_parameters is
\* unchanged, while success_rate, sample_count and last_updated are updated.
C3_OptimalReplacedAbove08 ==
    [][ (recorded' # recorded /\ KeyOf(recorded'[Len(recorded')]) \in DOMAIN learning_records)
        => LET fb == recorded'[Len(recorded')]
               key == KeyOf(fb)
               old == heap[learning_records[key]]
               new == heap'[learning_records'[key]]
           IN /\ fb.effectiveness > 80 => new.optimal_parameters = fb.parameters
              /\ fb.effectiveness <= 80 => new.optimal_parameters = old.optimal_parameters
              /\ new.sample_count = old.sample_count + 1
              /\ new.last_updated = fb.timestamp
              /\ RatEq(new.success_rate,
                       <<old.success_rate[1] * old.sample_count * 100
                            + fb.effectiveness * old.success_rate[2],
                         old.success_rate[2] * 100 * (old.sample_count + 1)>>)
      ]_vars

\* C3 witness: the last feedback scored exactly 0.8 on a key that already had a
\* record, and the record still holds other parameters than that feedback's.
C3_Witness ==
    /\ Len(recorded) >= 2
    /\ last_call.op = "record_feedback"
    /\ LET fb == recorded[Len(recorded)]
           key == KeyOf(fb)
       IN /\ fb.effectiveness = 80
          /\ Len(OfKey(key)) >= 2
          /\ RecordOf(key).optimal_parameters # fb.parameters
          /\ RecordOf(key).last_updated = fb.timestamp

\* C4: get_recommended_parameters returns the learned optimal_parameters
\* exactly when a record for agent+action exists with success_rate strictly
\* above 0.7, and otherwise the agent's static baseline (an empty mapping for
\* an agent without one); the call changes neither history nor records.
C4_RecommendedParameters ==
    [][ last_call'.op = "get_recommended_parameters"
        => /\ feedback_history' = feedback_history
           /\ learning_records' = learning_records
           /\ heap' = heap
           /\ LET key == ScenarioKey(last_call'.agent_name, last_call'.action)
                  learned == /\ key \in DOMAIN learning_records
                             /\ RecordOf(key).success_rate[1] * 10
                                  > 7 * RecordOf(key).success_rate[2]
              IN /\ learned => last_call'.result = RecordOf(key).optimal_parameters
                 /\ ~learned =>
                      last_call'.result =
                        IF last_call'.agent_name \in DOMAIN parameter_baselines
                        THEN parameter_baselines[last_call'.agent_name]
                        ELSE EmptyDict
      ]_vars

\* C4 witness: a query on a record whose success_rate is exactly 0.7 returned
\* the baseline although the record holds other parameters.
C4_Witness ==
    /\ last_call.op = "get_recommended_parameters"
    /\ LET key == ScenarioKey(last_call.agent_name, last_call.action)
       IN /\ key \in DOMAIN learning_records
          /\ RecordOf(key).success_rate = <<7, 10>>
          /\ last_call.result = BaselineOf(last_call.agent_name)
          /\ last_call.result # RecordOf(key).optimal_parameters

----------------------------------------------------------------------------
(* Claims about the shared FeedbackAgent (specification SpecConcurrent) *)

AllIdle == \A w \in Workers : fb_pc[w] = "idle"

\* C5: the read-modify-write of a LearningRecord is atomic per scenario key:
\* once every concurrent record_feedback call has returned, each key's
\* sample_count is the number of calls made for it and its success_rate is the
\* mean of all effectiveness values recorded for it, under any interleaving.
C5_NoLostUpdate ==
    AllIdle =>
        /\ DOMAIN learning_records = RecordedKeys
        /\ \A key \in DOMAIN learning_records :
             LET fbs == OfKey(key) IN
             /\ RecordOf(key).sample_count = Len(fbs)
             /\ RatEq(RecordOf(key).success_rate, <<SumEff(fbs), 100 * Len(fbs)>>)

----------------------------------------------------------------------------
(* Claims about the supervisor (specification SpecSupervisor) *)

\* C6: the agent cache holds at most one instance per agent name between
\* resets: under any interleaving the creator of a name runs at most once, and
\* all callers of a name since the last reset received the same instance.
C6_OneInstancePerName ==
    /\ \A n \in AgentNames : creator_runs[n] <= 1
    /\ \A v, w \in Workers :
         ( /\ tool_result[v].kind \in {"result", "error_message"}
           /\ tool_result[w].kind \in {"result", "error_message"}
           /\ tool_result[v].tool = tool_result[w].tool )
         => tool_result[v].agent = tool_result[w].agent

\* C10: no invoke_<name>_agent tool lets an exception reach its caller: a
\* failure while creating the sub-agent or while invoking it ends in an
\* error-message string naming the subsystem.
C10_ToolsNeverRaise ==
    \A w \in Workers : tool_result[w].kind # "raised"

----------------------------------------------------------------------------
(* Claims about the orchestrators (specification SpecOrchestrator) *)

\* C7: the failure of a sub-step (toxicity prediction, control-suggestion
\* generation, a controller or learner) does not abort the request: run
\* returns a report that contains the contribution of every sub-step that
\* succeeded and marks every failed subsystem as unavailable.
C7_PartialResponse ==
    last_request.failed # {} =>
        /\ last_request.kind = "report"
        /\ last_request.succeeded \subseteq last_request.sections
        /\ last_request.failed \subseteq last_request.unavailable

\* C8: after every completed request, system_state reflects the latest
\* readings and decision of that request: the toxicity value and level are
\* those the request read, and if the request produced a turntable decision,
\* turntable_frequency equals that decision's frequency and the toxicity
\* value and level equal the values the decision was computed from.
C8_StateReflectsRequest ==
    last_request.kind = "report" =>
        LET state == system_state[last_request.orchestrator]
            reading == last_request.reading
            decision == last_request.decision
        IN /\ reading.status = "success" =>
                /\ state.toxicity = reading.toxicity_value
                /\ state.toxicity_level = reading.toxicity_level
           /\ decision.present =>
                /\ state.turntable_frequency = decision.frequency_1
                /\ state.toxicity = decision.toxicity
                /\ state.toxicity_level = decision.toxicity_level

\* the turntable part of C8 alone: no request with a toxicity number reaches
\* the turntable controller (the "毒性" keyword routes it to an intent of
\* higher priority), so every decision is the 25 Hz of the default reading
TurntableDecisionIsDefault ==
    last_request.decision.present =>
        /\ last_request.decision.frequency_1 = InitialSystemState.turntable_frequency
        /\ last_request.decision.toxicity = InitialSystemState.toxicity

----------------------------------------------------------------------------
(* Claims about the MQTT publisher tools (specification SpecMqtt) *)

\* the call has an invalid identifier: an id outside {1,2,3}, a frequency
\* outside [5,50] Hz, an action that is neither start nor stop (compared
\* without regard to case, as the tools compare it), or a variable name that
\* resolves to no known PLC variable
IsInvalidCall(call) ==
    CASE call.tool = "set_turntable_frequency" ->
            call.id \notin {1, 2, 3} \/ call.frequency < 50 \/ call.frequency > 500
      [] call.tool \in {"control_turntable", "control_regeneration"} ->
            call.id \notin {1, 2, 3} \/ Lower(call.action) \notin {"start", "stop"}
      [] call.tool = "send_plc_command" ->
            \E name \in call.commands : ResolveVariableName(name) \notin PLC_VARIABLES
      [] OTHER -> FALSE

\* C9: an actuator command with an invalid identifier is rejected before any
\* effect: set_turntable_frequency with turntable_id outside {1,2,3} or a
\* frequency outside [5,50], control_turntable/control_regeneration with an
\* id outside {1,2,3} or an action other than start/stop, and
\* send_plc_command with at least one variable name that resolves to no
\* known PLC variable all return success=False and publish nothing
\* (send_plc_command publishes no valid subset either).
C9_InvalidCommandsRejected ==
    [][(mqtt_calls' # mqtt_calls /\ IsInvalidCall(mqtt_last')) =>
          (~mqtt_last'.success /\ published' = published)]_vars

\* C9 witness: after an accepted command was published, a send_plc_command
\* that mixes a valid and an unknown variable name has been refused and the
\* published payloads are still the one of the first call.
C9_Witness ==
    /\ mqtt_calls = 2
    /\ Len(published) = 1
    /\ mqtt_last.tool = "send_plc_command"
    /\ mqtt_last.commands = {"fan", "bogus"}
    /\ ~mqtt_last.success

----------------------------------------------------------------------------
(* Claims about the controller functions (specification SpecControllers) *)

\* the priority order of the intents as the claim states it
C11_Order == <<"collect_feedback", "check_regeneration", "system_diagnostic",
               "predict_toxicity", "control_mbr", "control_turntable",
               "full_analysis">>

\* C11: _identify_intent returns the intent of the first category, in the
\* order collect_feedback > check_regeneration > system_diagnostic >
\* predict_toxicity > control_mbr > control_turntable > full_analysis, whose
\* keyword set has a member occurring in the lower-cased request; a request
\* matching several categories yields the one of highest priority, and
\* general_query is returned if and only if no category matches.
C11_FirstCategoryWins ==
    ctl_call.op = "identify_intent" =>
        LET keywords == IF ctl_call.orchestrator = "MainOrchestrator"
                        THEN Main_Keywords ELSE Aq_Keywords
            lowered == { Lower(w) : w \in ctl_call.words }
            matching == { i \in 1..Len(C11_Order) :
                            keywords[C11_Order[i]] \cap lowered # {} }
        IN /\ (ctl_call.result = "general_query") <=> (matching = {})
           /\ matching # {} =>
                \E i \in matching :
                    /\ \A j \in matching : i <= j
                    /\ ctl_call.result = C11_Order[i]

\* C11 witness: a request with a turntable keyword, the MBR keyword in
\* capitals and a regeneration keyword was identified as check_regeneration.
C11_Witness ==
    /\ ctl_call.op = "identify_intent"
    /\ ctl_call.words = {"zhuanpan", "MBR", "zaisheng"}
    /\ ctl_call.result = "check_regeneration"

\* C12: for every toxicity level in {low, medium, high}, every trend in
\* {rising, stable, falling} and every toxicity value in [0,10], the turntable
\* controller's output frequency for reactors 1 and 2 lies in [5, 50] Hz and
\* each reported rpm equals the corresponding frequency times 30.
C12_FrequencyRangeAndRpm ==
    ctl_call.op = "turntable" =>
        LET out == ctl_call.output IN
        /\ 500 <= out.frequency_1 /\ out.frequency_1 <= 5000
        /\ 500 <= out.frequency_2 /\ out.frequency_2 <= 5000
        /\ out.rpm_1 = 30 * out.frequency_1
        /\ out.rpm_2 = 30 * out.frequency_2
        /\ out.rpm_3 = 30 * out.frequency_3

\* C12 witness: TurntableAgent was asked for high toxicity on a rising trend,
\* where 45 x 1.15 exceeds the range, and answered 50 Hz at 1500 rpm.
C12_Witness ==
    /\ ctl_call.op = "turntable"
    /\ ctl_call.controller = "TurntableAgent"
    /\ ctl_call.toxicity_level = "high"
    /\ ctl_call.trend = "rising"
    /\ ctl_call.output.frequency_1 = 5000
    /\ ctl_call.output.rpm_1 = 150000

\* C13: the turntable controller selects base frequency and reactor count
\* from the toxicity level alone, for every toxicity value in [0,10]: low
\* gives 10 Hz with 2 reactors and standby off, medium 25 Hz with 2 reactors
\* and standby off, high 45 Hz with 3 reactors and standby on; the output
\* frequency is clamp(base x multiplier, 5, 50) with multiplier 1.15 for
\* rising, 1.0 for stable and 0.90 for falling.
C13_BaseFromLevelAlone ==
    ctl_call.op = "turntable" =>
        LET out == ctl_call.output
            level == ctl_call.toxicity_level
            base == CASE level = "low" -> 1000
                      [] level = "medium" -> 2500
                      [] level = "high" -> 4500
            percent == CASE ctl_call.trend = "rising" -> 115
                         [] ctl_call.trend = "stable" -> 100
                         [] ctl_call.trend = "falling" -> 90
            scaled == (base * percent) \div 100
            clamped == IF scaled < 500 THEN 500 ELSE IF scaled > 5000 THEN 5000 ELSE scaled
        IN /\ out.frequency_1 = clamped
           /\ out.active_reactors = (IF level = "high" THEN 3 ELSE 2)
           /\ out.standby_triggered = (level = "high")

\* C14: with the default thresholds (tmp_warning 30, tmp_alarm 40) the MBR
\* controller classifies every transmembrane pressure into exactly one tier
\* with the stated boundaries: tmp < 20 is normal, 20 <= tmp < 24 is
\* attention, 30 <= tmp < 40 is warning, tmp >= 40 is critical; and the
\* integer alarm_level mirrors the tier (normal 0, attention 1, warning 2,
\* critical 3).
C14_FoulingTiers ==
    ctl_call.op = "mbr" =>
        LET tmp == ctl_call.current_tmp
            out == ctl_call.output
        IN /\ out.fouling_status \in {"normal", "attention", "warning", "critical"}
           /\ tmp < 2000 => out.fouling_status = "normal"
           /\ (2000 <= tmp /\ tmp < 2400) => out.fouling_status = "attention"
           /\ (3000 <= tmp /\ tmp < 4000) => out.fouling_status = "warning"
           /\ tmp >= 4000 => out.fouling_status = "critical"
           /\ out.alarm_level = (CASE out.fouling_status = "normal" -> 0
                                   [] out.fouling_status = "attention" -> 1
                                   [] out.fouling_status = "warning" -> 2
                                   [] out.fouling_status = "critical" -> 3)

\* C15: the MBR controller's actuation follows the tier: in the warning tier
\* backwash_needed is true, chemical_cleaning_needed is false, flux_setpoint
\* is 0.75 x design flux and aeration is 1.2 x current aeration; in the
\* critical tier flux_setpoint is 0, aeration is 1.5 x current aeration and
\* chemical_cleaning_needed is true; in the normal tier backwash_needed and
\* chemical_cleaning_needed are both false (tmp 18 is normal, tmp 32 warning,
\* tmp 42 critical).
C15_ActuationFollowsTier ==
    ctl_call.op = "mbr" =>
        LET tmp == ctl_call.current_tmp
            out == ctl_call.output
        IN /\ out.fouling_status = "warning" =>
                /\ out.backwash_needed
                /\ ~out.chemical_cleaning_needed
                /\ 100 * out.flux_setpoint = 75 * 2000
                /\ 10 * out.aeration_rate = 12 * ctl_call.current_aeration
           /\ out.fouling_status = "critical" =>
                /\ out.flux_setpoint = 0
                /\ 10 * out.aeration_rate = 15 * ctl_call.current_aeration
                /\ out.chemical_cleaning_needed
           /\ out.fouling_status = "normal" =>
                /\ ~out.backwash_needed
                /\ ~out.chemical_cleaning_needed
           /\ tmp = 1800 => out.fouling_status = "normal"
           /\ tmp = 3200 => out.fouling_status = "warning"
           /\ tmp = 4200 => out.fouling_status = "critical"

\* C15 witness: at 32 kPa with 50 m3/h of aeration the controller answered
\* warning: backwash, no chemical cleaning, flux 15 and aeration 60.
C15_Witness ==
    /\ ctl_call.op = "mbr"
    /\ ctl_call.current_tmp = 3200
    /\ ctl_call.current_aeration = 5000
    /\ ctl_call.output.fouling_status = "warning"
    /\ ctl_call.output.backwash_needed
    /\ ctl_call.output.flux_setpoint = 1500
    /\ ctl_call.output.aeration_rate = 6000

\* C16: the regeneration controller evaluates its rules in a fixed order and
\* the first match wins: (1) efficiency < 60 or removal < 40 gives mode
\* intensive, regardless of operating hours; else (2) efficiency < 80 or
\* removal < 60 gives normal; else (3) operating_hours > 720 gives normal;
\* else (4) operating_hours > 576 gives energy_saving; else no regeneration
\* is needed and the mode is standby (efficiency 90 at 200 h: not needed;
\* efficiency 70 at 600 h: needed, normal; efficiency 50: intensive).
C16_RegenerationRuleOrder ==
    ctl_call.op = "regeneration" =>
        LET eff == ctl_call.adsorption_efficiency
            rem == ctl_call.removal_rate
            hours == ctl_call.operating_hours
            out == ctl_call.output
            rule1 == eff < 6000 \/ rem < 4000
            rule2 == eff < 8000 \/ rem < 6000
            rule3 == hours > 72000
            rule4 == hours > 57600
        IN /\ rule1 => (out.regeneration_needed /\ out.regeneration_mode = "intensive")
           /\ (~rule1 /\ rule2) =>
                (out.regeneration_needed /\ out.regeneration_mode = "normal")
           /\ (~rule1 /\ ~rule2 /\ rule3) =>
                (out.regeneration_needed /\ out.regeneration_mode = "normal")
           /\ (~rule1 /\ ~rule2 /\ ~rule3 /\ rule4) =>
                (out.regeneration_needed /\ out.regeneration_mode = "energy_saving")
           /\ (~rule1 /\ ~rule2 /\ ~rule3 /\ ~rule4) =>
                (~out.regeneration_needed /\ out.regeneration_mode = "standby")
           /\ (eff = 9000 /\ rem = 7000 /\ hours = 20000) => ~out.regeneration_needed
           /\ (eff = 7000 /\ rem = 7000 /\ hours = 60000) =>
                (out.regeneration_needed /\ out.regeneration_mode = "normal")

\* C16 witness: a saturated carbon (efficiency 50) past 720 operating hours
\* matched the first rule and the third, and the controller chose intensive.
C16_Witness ==
    /\ ctl_call.op = "regeneration"
    /\ ctl_call.adsorption_efficiency = 5000
    /\ ctl_call.operating_hours = 72001
    /\ ctl_call.output.regeneration_needed
    /\ ctl_call.output.regeneration_mode = "intensive"

\* the four subsystems of a diagnostic report
C17_Subsystems == {"toxicity", "turntable", "mbr", "regeneration"}

\* C17: for every combination of inputs to generate_diagnostic_report, each
\* of the four subsystem scores lies in [0,100], overall_score equals the
\* arithmetic mean of the four subsystem scores, and overall_score therefore
\* lies in [0,100].
C17_ScoresBoundedAndMean ==
    ctl_call.op = "diagnostic" =>
        LET report == ctl_call.report
            status == report.subsystem_status
        IN /\ DOMAIN status = C17_Subsystems
           /\ \A s \in C17_Subsystems : 0 <= status[s].score /\ status[s].score <= 10000
           /\ 4 * report.overall_score =
                status["toxicity"].score + status["turntable"].score
                + status["mbr"].score + status["regeneration"].score
           /\ 0 <= report.overall_score /\ report.overall_score <= 10000

\* C17 witness: a report whose MBR subsystem lost 90 points (score 10) while
\* the regeneration subsystem lost none, with an overall score of 63.75.
C17_Witness ==
    /\ ctl_call.op = "diagnostic"
    /\ ctl_call.report.subsystem_status["mbr"].score = 1000
    /\ ctl_call.report.subsystem_status["regeneration"].score = 10000
    /\ ctl_call.report.overall_score = 6375

\* the band of a score as the claim states it
C18_Band(score) ==
    CASE score >= 9000 -> "excellent"
      [] score >= 7500 /\ score < 9000 -> "good"
      [] score >= 6000 /\ score < 7500 -> "attention"
      [] score >= 4000 /\ score < 6000 -> "warning"
      [] score < 4000 -> "critical"

\* C18: every health level in a diagnostic report is the band of the score
\* it accompanies: for each SubsystemStatus and for the overall result the
\* level is excellent iff score >= 90, good iff 75 <= score < 90, attention
\* iff 60 <= score < 75, warning iff 40 <= score < 60 and critical iff
\* score < 40, where score is the reported score.
C18_LevelIsBandOfScore ==
    ctl_call.op = "diagnostic" =>
        LET report == ctl_call.report
            status == report.subsystem_status
        IN /\ report.overall_health = C18_Band(report.overall_score)
           /\ \A s \in DOMAIN status : status[s].health_level = C18_Band(status[s].score)

\* C18 witness: a report with a critical MBR subsystem (score 10), a warning
\* toxicity subsystem (score 40) and an overall result in the attention band.
C18_Witness ==
    /\ ctl_call.op = "diagnostic"
    /\ ctl_call.report.subsystem_status["mbr"].health_level = "critical"
    /\ ctl_call.report.subsystem_status["toxicity"].score = 4000
    /\ ctl_call.report.subsystem_status["toxicity"].health_level = "warning"
    /\ ctl_call.report.overall_health = "attention"

\* the issues of the subsystems at one of the levels, in report order
C19_IssuesAt(status, levels) ==
    LET pick(s) == IF status[s].health_level \in levels THEN status[s].issues ELSE << >>
    IN pick("toxicity") \o pick("turntable") \o pick("mbr") \o pick("regeneration")

\* C19: in every diagnostic report critical_issues is exactly the
\* concatenation of the issues of the subsystems whose health level is
\* warning or critical, warnings is exactly the concatenation of the issues
\* of the subsystems at attention level, and recommendations contains no
\* duplicate, has at most 10 entries and consists only of recommendations
\* issued by some subsystem.
C19_IssuesAndRecommendations ==
    ctl_call.op = "diagnostic" =>
        LET report == ctl_call.report
            status == report.subsystem_status
            recs == report.recommendations
        IN /\ report.critical_issues = C19_IssuesAt(status, {"warning", "critical"})
           /\ report.warnings = C19_IssuesAt(status, {"attention"})
           /\ \A i, j \in DOMAIN recs : recs[i] = recs[j] => i = j
           /\ Len(recs) <= 10
           /\ \A i \in DOMAIN recs :
                \E s \in DOMAIN status :
                    \E k \in DOMAIN status[s].recommendations :
                        recs[i] = status[s].recommendations[k]

\* C19 witness: a report with a subsystem at warning level, one at critical
\* level and one at attention level, whose issues were sorted into
\* critical_issues and warnings, and with ten recommendations.
C19_Witness ==
    /\ ctl_call.op = "diagnostic"
    /\ ctl_call.report.subsystem_status["toxicity"].health_level = "warning"
    /\ ctl_call.report.subsystem_status["mbr"].health_level = "critical"
    /\ ctl_call.report.subsystem_status["regeneration"].health_level = "attention"
    /\ Len(ctl_call.report.critical_issues) >= 5
    /\ Len(ctl_call.report.warnings) = 2
    /\ Len(ctl_call.report.recommendations) = 10

\* C20: calculate_effectiveness(expected, actual, tolerance) never raises and
\* always returns a value within [0,1], for every expected and actual (zero,
\* positive or negative): when expected = 0 it returns 1.0 if actual = 0 and
\* 0.0 otherwise, and when expected # 0 it returns
\* max(0, 1 - (|expected - actual| / expected) / tolerance) rounded to 2
\* decimals (so (50, 50, 0.2) gives 1.0 and (50, 0, 0.2) gives 0.0).
C20_EffectivenessInUnitRange ==
    ctl_call.op = "calculate_effectiveness" =>
        LET expected == ctl_call.expected
            actual == ctl_call.actual
            result == ctl_call.result
        IN /\ result.kind = "value"
           /\ 0 <= result.value /\ result.value <= 100
           /\ expected = 0 => result.value = (IF actual = 0 THEN 100 ELSE 0)
           /\ (expected = 50 /\ actual = 50 /\ ctl_call.tolerance = 20) =>
                result.value = 100
           /\ (expected = 50 /\ actual = 0 /\ ctl_call.tolerance = 20) =>
                result.value = 0

\* C23 (statement): the deductions of the MBR health score
C23_Deductions(tmp, flux, fouling_status) ==
    (IF tmp >= 4000 THEN 3500
     ELSE IF 3000 <= tmp /\ tmp < 4000 THEN 2000
     ELSE IF 2500 <= tmp /\ tmp < 3000 THEN 1000 ELSE 0)
    + (IF flux < 1000 THEN 2500 ELSE IF flux < 1500 THEN 1500 ELSE 0)
    + (IF fouling_status = "critical" THEN 3000
       ELSE IF fouling_status = "warning" THEN 1500 ELSE 0)

\* C23: the MBR health score starts at 100 and subtracts, cumulatively, 35 if
\* tmp >= 40, else 20 if 30 <= tmp < 40, else 10 if 25 <= tmp < 30; then 25
\* if flux < 10, else 15 if flux < 15; then 30 if fouling is critical, else
\* 15 if fouling is warning; the result is clamped to be >= 0 (the boundary
\* values tmp = 40, 30 and 25 fall in the higher-deduction band).
C23_MbrScoreDeductions ==
    ctl_call.op = "evaluate_mbr" =>
        ctl_call.status.score =
            Max(0, 10000 - C23_Deductions(ctl_call.tmp, ctl_call.flux,
                                          ctl_call.fouling_status))

\* C24 (statement): temperature and feed rate of each regeneration mode
C24_ModeValues ==
    [normal |-> <<80000, 3000>>, intensive |-> <<85000, 4000>>,
     energy_saving |-> <<75000, 2500>>]

\* C24: the regeneration output is internally consistent for all inputs:
\* regeneration_needed is false exactly when regeneration_mode is standby, and
\* then furnace_temperature, feed_rate and estimated_duration are all 0 and the
\* PLC command has FURNACE.ENABLE false; when regeneration_needed is true,
\* ENABLE is true and temperature and feed rate are the knowledge-store values
\* of the selected mode (normal 800/30, intensive 850/40, energy_saving
\* 750/25); carbon_recovery_rate is 95 in both cases.
C24_RegenerationOutputConsistent ==
    ctl_call.op = "regeneration" =>
        LET out == ctl_call.output IN
        /\ (~out.regeneration_needed) <=> (out.regeneration_mode = "standby")
        /\ (~out.regeneration_needed) =>
              /\ out.furnace_temperature = 0
              /\ out.feed_rate = 0
              /\ out.estimated_duration = 0
              /\ out.plc_command.FURNACE.ENABLE = FALSE
        /\ out.regeneration_needed =>
              /\ out.plc_command.FURNACE.ENABLE = TRUE
              /\ out.regeneration_mode \in DOMAIN C24_ModeValues
              /\ <<out.furnace_temperature, out.feed_rate>> =
                    C24_ModeValues[out.regeneration_mode]
              /\ out.plc_command.FURNACE.TEMP_SETPOINT = out.furnace_temperature
              /\ out.plc_command.FURNACE.FEED_RATE = out.feed_rate
        /\ out.carbon_recovery_rate = 9500

C24_Witness ==
    /\ ctl_call.op = "regeneration"
    /\ ~ctl_call.output.regeneration_needed
    /\ ctl_call.output.regeneration_mode = "standby"
    /\ ctl_call.output.plc_command.FURNACE.ENABLE = FALSE

\* C25: in every turntable decision the third (standby) reactor's frequency
\* equals the adjusted frequency of reactors 1 and 2 if standby is enabled and
\* is 0 otherwise; standby is enabled exactly when active_reactors is 3, and
\* the PLC command's TURNTABLE_3.ENABLE equals the standby flag.
C25_StandbyReactor ==
    ctl_call.op = "turntable" =>
        LET out == ctl_call.output IN
        /\ out.frequency_1 = out.frequency_2
        /\ out.frequency_3 = (IF out.standby_triggered THEN out.frequency_1 ELSE 0)
        /\ out.standby_triggered <=> (out.active_reactors = 3)
        /\ out.plc_command.TURNTABLE_3.ENABLE = out.standby_triggered

C25_Witness ==
    /\ ctl_call.op = "turntable"
    /\ ctl_call.output.standby_triggered
    /\ ctl_call.output.frequency_3 = 4050
    /\ ctl_call.output.plc_command.TURNTABLE_3.ENABLE

\* C26: in the plc/write handler every received MQTT message is counted
\* exactly once as either success or failure: after each on_message callback
\* returns, for any sequence of messages (valid commands, payloads without a
\* data field, invalid JSON, or a status publish that raises),
\* total_received = total_success + total_failed.
C26_EveryMessageCountedOnce ==
    command_stats.total_received =
        command_stats.total_success + command_stats.total_failed

\* C27 (statement): the sample whose parameters a key's record holds: the most
\* recent sample scoring above 0.8, or the first sample when none did
C27_HeldSample(samples) ==
    LET above == { i \in 1..Len(samples) : samples[i].effectiveness > 80 } IN
    IF above = {} THEN samples[1]
    ELSE samples[CHOOSE i \in above : \A j \in above : j <= i]

\* C27: the first feedback recorded for a scenario key seeds the record's
\* optimal_parameters with that feedback's parameters whatever its
\* effectiveness; after any sequence of record_feedback calls,
\* optimal_parameters equals the parameters of the most recent sample of that
\* key scoring above 0.8, or the first sample's parameters when no sample has
\* scored above 0.8 (so get_recommended_parameters can return the parameters
\* of a sample that scored at most 0.8).
C27_OptimalParametersSeeded ==
    \A key \in DOMAIN learning_records :
        /\ Len(OfKey(key)) >= 1
        /\ heap[learning_records[key]].optimal_parameters =
              C27_HeldSample(OfKey(key)).parameters

\* get_recommended_parameters has returned the parameters of the only sample
\* of its key, which scored at most 0.8
C27_Witness ==
    /\ Len(recorded) = 1
    /\ recorded[1].effectiveness <= 80
    /\ last_call.op = "get_recommended_parameters"
    /\ ScenarioKey(last_call.agent_name, last_call.action) = KeyOf(recorded[1])
    /\ last_call.result = recorded[1].parameters
    /\ last_call.result # BaselineOf(last_call.agent_name)

\* the levels of the four subsystems of a report
C28_SubsystemLevels(report) ==
    { report.subsystem_status[s].health_level : s \in Range(Subsystems) }

\* C28: in every diagnostic report, if any subsystem is at warning or critical
\* level (in particular whenever critical_issues is non-empty) then
\* overall_health is never excellent, i.e. overall_score < 90; the overall
\* level can still be good while one subsystem is critical.
C28_NeverExcellentWithWarning ==
    ctl_call.op = "diagnostic" =>
        LET report == ctl_call.report IN
        /\ report.critical_issues # << >> =>
              C28_SubsystemLevels(report) \cap {"warning", "critical"} # {}
        /\ C28_SubsystemLevels(report) \cap {"warning", "critical"} # {} =>
              /\ report.overall_health # "excellent"
              /\ report.overall_score < 9000

\* the overall level is good while one subsystem is critical
C28_Witness ==
    /\ ctl_call.op = "diagnostic"
    /\ "critical" \in C28_SubsystemLevels(ctl_call.report)
    /\ ctl_call.report.critical_issues # << >>
    /\ ctl_call.report.overall_health = "good"

\* C22 (statement): the sub-agents implied by each intent, in call order
C22_Implied(intent) ==
    CASE intent = "predict_toxicity" -> <<"toxicity">>
      [] intent = "control_turntable" -> <<"turntable">>
      [] intent = "control_mbr" -> <<"mbr">>
      [] intent = "check_regeneration" -> <<"regeneration">>
      [] intent = "system_diagnostic" -> <<"diagnostic">>
      [] intent = "collect_feedback" -> <<"feedback">>
      [] intent = "full_analysis" ->
           <<"toxicity", "turntable", "mbr", "regeneration", "diagnostic", "feedback">>
      [] OTHER -> << >>

\* C22: MainOrchestrator.run invokes exactly the sub-agents implied by the
\* routed intent and no others (one each for the six single intents, all six
\* in the order toxicity, turntable, MBR, regeneration, diagnostic, feedback
\* for full_analysis, none for general_query), and the response contains a
\* section for a subsystem if and only if that sub-agent was invoked.
C22_InvokesImpliedAgents ==
    (last_request.orchestrator = "MainOrchestrator" /\ last_request.kind = "report") =>
        /\ last_request.order = C22_Implied(last_request.intent)
        /\ last_request.succeeded \cup last_request.failed = Range(last_request.order)
        /\ last_request.sections = Range(last_request.order)

C22_Witness ==
    /\ last_request.orchestrator = "MainOrchestrator"
    /\ last_request.kind = "report"
    /\ last_request.intent = "full_analysis"
    /\ Len(last_request.order) = 6
    /\ last_request.sections = Range(last_request.order)

----------------------------------------------------------------------------
(* Claims about repeated controller calls (specification SpecRepeatedCalls) *)

\* the arguments of a generate_control_output call
InputsOf(call) ==
    CASE call.op = "turntable" ->
           <<call.op, call.controller, call.toxicity, call.toxicity_level, call.trend>>
      [] call.op = "mbr" ->
           <<call.op, call.current_tmp, call.current_flux, call.current_aeration>>
      [] call.op = "regeneration" ->
           <<call.op, call.adsorption_efficiency, call.removal_rate, call.operating_hours>>
      [] OTHER -> <<call.op>>

\* the call in progress repeats the kept call: same controller, same arguments
RepeatsKeptCall ==
    /\ ctl_kept # NoControllerCall
    /\ ctl_call.op \in ControlOps
    /\ InputsOf(ctl_call) = InputsOf(ctl_kept)

C29_SameInputsLowerPressureKept ==
    /\ ctl_kept.op = "mbr"
    /\ ctl_call.op = "mbr"
    /\ ctl_kept.current_flux = ctl_call.current_flux
    /\ ctl_kept.current_aeration = ctl_call.current_aeration
    /\ ctl_kept.current_tmp <= ctl_call.current_tmp

\* C29: the MBR controller's response is monotone in transmembrane pressure:
\* for any two pressures tmp1 <= tmp2 (same flux and aeration inputs),
\* alarm_level(tmp1) <= alarm_level(tmp2), backwash_needed at tmp1 implies
\* backwash_needed at tmp2, chemical_cleaning_needed at tmp1 implies it at
\* tmp2, and flux_setpoint at tmp2 is not larger than at tmp1;
\* chemical_cleaning_needed always implies backwash_needed.
C29_MonotoneInPressure ==
    /\ ctl_call.op = "mbr" =>
          (ctl_call.output.chemical_cleaning_needed => ctl_call.output.backwash_needed)
    /\ C29_SameInputsLowerPressureKept =>
          LET low == ctl_kept.output
              high == ctl_call.output
          IN /\ low.alarm_level <= high.alarm_level
             /\ low.backwash_needed => high.backwash_needed
             /\ low.chemical_cleaning_needed => high.chemical_cleaning_needed
             /\ high.flux_setpoint <= low.flux_setpoint

\* a call at the warning tier kept, a call at the critical tier in progress
C29_Witness ==
    /\ C29_SameInputsLowerPressureKept
    /\ ctl_kept.output.fouling_status = "warning"
    /\ ctl_call.output.fouling_status = "critical"
    /\ ctl_call.output.flux_setpoint < ctl_kept.output.flux_setpoint

\* the kept call and the call in progress are turntable calls of the two
\* implementations with the same toxicity, level and trend
C30_SameInputsOtherImplementation ==
    /\ ctl_kept.op = "turntable"
    /\ ctl_call.op = "turntable"
    /\ ctl_kept.controller # ctl_call.controller
    /\ ctl_kept.toxicity = ctl_call.toxicity
    /\ ctl_kept.toxicity_level = ctl_call.toxicity_level
    /\ ctl_kept.trend = ctl_call.trend

\* C30: the two turntable implementations are equivalent under the default
\* configuration (target frequencies 10/25/45, toxicity thresholds 1.5/3.0,
\* 30 rpm per Hz): for every toxicity value, level and trend,
\* TurntableAgent.generate_control_output and generate_turntable_command
\* produce the same frequencies, rpm values, active_reactors, standby flag,
\* expected removal rate, decision reason and PLC command (timestamp excepted).
C30_ImplementationsEquivalent ==
    C30_SameInputsOtherImplementation =>
        LET a == ctl_kept.output
            b == ctl_call.output
        IN /\ <<a.frequency_1, a.frequency_2, a.frequency_3>> =
                <<b.frequency_1, b.frequency_2, b.frequency_3>>
           /\ <<a.rpm_1, a.rpm_2, a.rpm_3>> = <<b.rpm_1, b.rpm_2, b.rpm_3>>
           /\ a.active_reactors = b.active_reactors
           /\ a.standby_triggered = b.standby_triggered
           /\ a.expected_removal_rate = b.expected_removal_rate
           /\ a.decision_reason = b.decision_reason
           /\ a.plc_command = b.plc_command

\* the agent's output kept, the tool called with the same high-toxicity inputs
C30_Witness ==
    /\ C30_SameInputsOtherImplementation
    /\ ctl_kept.controller = "TurntableAgent"
    /\ ctl_call.toxicity = 400
    /\ ctl_call.trend = "rising"
    /\ ctl_call.output.frequency_1 = 5000
    /\ ctl_call.output.expected_removal_rate = 762

====
